---- MODULE Spec2Model ----
(***************************************************************************)
(* Channel lifecycle and plugin-credentials coordination of the HHVM gRPC  *)
(* extension (src/php/ext/grpc/hhvm/channel.cpp, call_credentials.cpp).    *)
(*                                                                         *)
(* Four specifications share the variables:                                *)
(*   SpecArgs   - ChannelArgs::init applied to bounded argument mappings   *)
(*   Spec       - the channel cache, the Channel methods, evict, teardown  *)
(*   SpecHandle - the same methods on one handle, every outcome recorded   *)
(*   SpecPlugin - the plugin metadata registry and the dispatcher          *)
(* Each specification leaves the variables of the others unchanged.        *)
(***************************************************************************)
EXTENDS Integers, Sequences, FiniteSets, TLC

(***************************************************************************)
(* std::string: a sequence of character codes (unsigned char values).      *)
(***************************************************************************)
StrEmpty == << >>
StrA == <<97>>
StrB == <<98>>
StrC == <<99>>
StrD == <<100>>
StrE == <<101>>
StrK == <<107>>
StrN == <<110>>
StrAB == <<97, 98>>
StrBC == <<98, 99>>
Str8080 == <<56, 48, 56, 48>>
StrHost == <<104>>

\* std::string operator< : lexicographic on unsigned char, a proper prefix is less
RECURSIVE StrLess(_, _)
StrLess(s1, s2) ==
    IF s2 = << >> THEN FALSE
    ELSE IF s1 = << >> THEN TRUE
    ELSE IF Head(s1) # Head(s2) THEN Head(s1) < Head(s2)
    ELSE StrLess(Tail(s1), Tail(s2))

(***************************************************************************)
(* PHP values (HPHP::Variant).  A PHP integer is 64 bits wide: hi is the   *)
(* upper 32 bits and lo the lower 32 bits, each read as a two's-complement *)
(* 32-bit number, so the value is hi * 2^32 + (lo mod 2^32).               *)
(***************************************************************************)
VStr(s) == [t |-> "string", s |-> s]
VInt(hi, lo) == [t |-> "int", hi |-> hi, lo |-> lo]
VNull == [t |-> "null"]
VBool(b) == [t |-> "bool", b |-> b]

\* Variant::toInt32: the 64-bit integer cut to its low 32 bits
ToInt32(v) == v.lo

\* std::to_string(int32_t): decimal digits, '-' first for a negative number
RECURSIVE DecDigits(_)
DecDigits(n) ==
    IF n < 10 THEN <<48 + n>>
    ELSE DecDigits(n \div 10) \o <<48 + (n % 10)>>

StdToString(n) == IF n < 0 THEN <<45>> \o DecDigits(0 - n) ELSE DecDigits(n)

\* StringUtil::SHA1(s, false): the hex digest, modelled as a collision-free
\* digest of s (the tag 0 is no character code of any input)
SHA1(s) == <<0>> \o s

(***************************************************************************)
(* ChannelArgs                                                             *)
(***************************************************************************)
\* a ChannelArgs object: m_ChannelArgs (args, num_args), m_PHPData,
\* m_HashKey, m_ConcatenatedArgs
ChannelArgsEmpty ==
    [args |-> << >>, num_args |-> 0, phpData |-> << >>,
     hashKey |-> StrEmpty, concatenatedArgs |-> StrEmpty]

\* ChannelArgs::destroyArgs
DestroyArgs(obj) ==
    [obj EXCEPT !.args = << >>, !.num_args = 0, !.phpData = << >>,
                !.hashKey = StrEmpty, !.concatenatedArgs = StrEmpty]

\* the comparison lambda handed to std::sort
SortLambda(pair1, pair2) ==
    IF pair1[1] # pair1[2]
    THEN StrLess(pair1[1], pair1[2])
    ELSE StrLess(pair2[1], pair2[2])

\* libstdc++ __unguarded_linear_insert: shift val towards the front while
\* comp(val, *next) holds
RECURSIVE UnguardedLinearInsert(_, _, _)
UnguardedLinearInsert(s, last, val) ==
    IF last > 1 /\ SortLambda(val, s[last - 1])
    THEN UnguardedLinearInsert([s EXCEPT ![last] = s[last - 1]], last - 1, val)
    ELSE [s EXCEPT ![last] = val]

\* libstdc++ __insertion_sort, which is all std::sort does for at most 16
\* elements: an element that compares less than the first is moved to the
\* front, any other is inserted by __unguarded_linear_insert
RECURSIVE InsertionSort(_, _)
InsertionSort(s, i) ==
    IF i > Len(s) THEN s
    ELSE IF SortLambda(s[i], s[1])
         THEN InsertionSort(<<s[i]>> \o SubSeq(s, 1, i - 1) \o SubSeq(s, i + 1, Len(s)),
                            i + 1)
         ELSE InsertionSort(UnguardedLinearInsert(s, i, s[i]), i + 1)

StdSort(s) == IF Len(s) < 2 THEN s ELSE InsertionSort(s, 2)

\* mutant: the concatenation puts '=' after each key and '&' after each value
RECURSIVE ConcatPairsDelimited(_)
ConcatPairsDelimited(s) ==
    IF s = << >> THEN StrEmpty
    ELSE Head(s)[1] \o <<61>> \o Head(s)[2] \o <<38>> \o ConcatPairsDelimited(Tail(s))

RECURSIVE ConcatPairs(_)
ConcatPairs(s) ==
    IF s = << >> THEN StrEmpty
    ELSE Head(s)[1] \o Head(s)[2] \o ConcatPairs(Tail(s))

\* the tail of ChannelArgs::init: sort, concatenate, hash
InitFinish(obj) ==
    LET cat == obj.concatenatedArgs \o ConcatPairs(StdSort(obj.phpData))
    IN [ok |-> TRUE,
        obj |-> [obj EXCEPT !.concatenatedArgs = cat, !.hashKey = SHA1(cat)]]

\* mutant: a failure exit that returns false without destroyArgs()
InitFailKeep(obj) == [ok |-> FALSE, obj |-> obj]

\* the failure exits of the loop: destroyArgs(); return false
InitFail(obj) == [ok |-> FALSE, obj |-> DestroyArgs(obj)]

\* the loop of ChannelArgs::init over the array, from element count + 1 on
RECURSIVE InitLoop(_, _, _)
InitLoop(obj, argsArray, count) ==
    IF count >= Len(argsArray) THEN InitFinish(obj)
    ELSE LET key == argsArray[count + 1][1]
             value == argsArray[count + 1][2]
         IN IF key.t = "null" \/ key.t # "string" THEN InitFail(obj)
            ELSE IF value.t = "null" THEN InitFail(obj)
            ELSE IF value.t = "int"
                 THEN LET valueInt == ToInt32(value)
                      IN InitLoop([obj EXCEPT
                             !.phpData = Append(@, <<key.s, StdToString(valueInt)>>),
                             !.args = Append(@, [key |-> key.s, type |-> "GRPC_ARG_INTEGER",
                                                 value |-> [integer |-> valueInt]])],
                           argsArray, count + 1)
            ELSE IF value.t = "string"
                 THEN InitLoop([obj EXCEPT
                             !.phpData = Append(@, <<key.s, value.s>>),
                             !.args = Append(@, [key |-> key.s, type |-> "GRPC_ARG_STRING",
                                                 value |-> [string |-> value.s]])],
                           argsArray, count + 1)
            ELSE InitFail(obj)

\* ChannelArgs::init: [ok |-> the return value, obj |-> the object afterwards]
ChannelArgsInit(obj0, argsArray) ==
    LET obj == DestroyArgs(obj0)
    IN InitLoop([obj EXCEPT !.num_args = Len(argsArray)], argsArray, 0)

(***************************************************************************)
(* State                                                                   *)
(***************************************************************************)
VARIABLES
    \* SpecArgs: a ChannelArgs object, the last array handed to init, its result
    caObj, caIn, caRet,
    \* Spec: ChannelsCache::m_ChannelMap and the holders of m_ChannelMapMutex
    m_ChannelMap, readers, writer,
    \* every grpc_channel the factory has returned, with the number of
    \* grpc_channel_destroy calls on it (index = the channel's identity)
    channels,
    \* the ChannelData of each thread's Grpc\Channel object
    channelData,
    \* each thread's position and the locals of its running method
    pc, loc,
    \* the constructor input each open Channel object was built from
    builtFrom,
    \* the outcome of the method call that finished last
    lastOp,
    \* ChannelsCache::~ChannelsCache has run
    tornDown,
    \* SpecPlugin: PluginMetadataInfo::m_MetaDataMap and the holder of m_Lock
    m_MetaDataMap, m_Lock,
    \* every MetaDataInfo slot a call has created (index = its identity)
    slots,
    \* each thread's position in plugin_get_metadata and its locals
    dpc, dloc,
    \* per credentials: the slot of the last setInfo, whether deleteInfo erased
    \* it, and what the getInfo calls since then returned
    infoLog,
    \* the number of plugin_get_metadata calls so far
    dispatched,
    \* SpecSlice: the Slice objects, every reference-counted buffer a slice
    \* was created with (index = its identity) with the gpr_slice_ref and
    \* gpr_slice_unref calls made on it, and whether one of those calls was
    \* made on a freed buffer (undefined behaviour; nothing is modelled after)
    sliceObjs, buffers, sliceUB

argsVars == <<caObj, caIn, caRet>>
chanVars == <<m_ChannelMap, readers, writer, channels, channelData, builtFrom,
              pc, loc, lastOp, tornDown>>
plugVars == <<m_MetaDataMap, m_Lock, slots, dpc, dloc, infoLog, dispatched>>
sliceVars == <<sliceObjs, buffers, sliceUB>>
vars == <<argsVars, chanVars, plugVars, sliceVars>>

(***************************************************************************)
(* Bounds and inputs                                                       *)
(***************************************************************************)
MaxArgs == 3
NumThreads == 2
MaxChannels == 2

Threads == 1..NumThreads

\* nullptr
NoChannel == 0
NoThread == 0

\* the (key, value) entries argument arrays are built from
ArgPairs ==
    { <<VStr(StrA), VStr(StrB)>>, <<VStr(StrC), VStr(StrD)>>,
      <<VStr(StrB), VStr(StrA)>>, <<VStr(StrE), VStr(StrE)>>,
      <<VStr(StrAB), VStr(StrC)>>, <<VStr(StrA), VStr(StrBC)>>,
      <<VStr(StrK), VInt(0, 8080)>>, <<VStr(StrK), VStr(Str8080)>>,
      <<VStr(StrK), VInt(1, 8080)>>, <<VStr(StrD), VInt(-1, -1)>>,
      <<VStr(StrN), VNull>>, <<VStr(StrN), VBool(TRUE)>>,
      <<VInt(0, 0), VStr(StrA)>> }

\* a PHP array holds each key once
DistinctKeys(a) == \A i, j \in 1..Len(a) : i # j => a[i][1] # a[j][1]

ArgArrays ==
    { a \in UNION { [1..n -> ArgPairs] : n \in 0..MaxArgs } : DistinctKeys(a) }

(***************************************************************************)
(* SpecArgs: ChannelArgs::init on a ChannelArgs object                     *)
(***************************************************************************)
ArgsInit(a) ==
    LET r == ChannelArgsInit(caObj, a)
    IN /\ caRet = "none"
       /\ caObj' = r.obj
       /\ caIn' = a
       /\ caRet' = IF r.ok THEN "true" ELSE "false"
       /\ UNCHANGED <<chanVars, plugVars, sliceVars>>

\* no ChannelArgs::init call yet
ArgsIdle ==
    /\ caObj = ChannelArgsEmpty
    /\ caIn = << >>
    /\ caRet = "none"

\* the object init is called on is new, or was initialised before
ArgsInitInit ==
    /\ caObj \in {ChannelArgsEmpty} \cup
                { ChannelArgsInit(ChannelArgsEmpty, <<p>>).obj : p \in ArgPairs }
    /\ caIn = << >>
    /\ caRet = "none"

(***************************************************************************)
(* ChannelData                                                             *)
(***************************************************************************)
\* mutant: destroy calls grpc_channel_destroy whatever m_Owned says
ChannelDataDestroyAlways(d) ==
    IF d.m_pChannel # NoChannel
    THEN [data |-> [d EXCEPT !.m_pChannel = NoChannel], destroyed |-> d.m_pChannel]
    ELSE [data |-> d, destroyed |-> NoChannel]

\* ChannelData::destroy: [data |-> the object afterwards,
\*                        destroyed |-> the channel grpc_channel_destroy got]
ChannelDataDestroy(d) ==
    IF d.m_pChannel # NoChannel
    THEN [data |-> [d EXCEPT !.m_pChannel = NoChannel],
          destroyed |-> IF d.m_Owned THEN d.m_pChannel ELSE NoChannel]
    ELSE [data |-> d, destroyed |-> NoChannel]

\* ChannelData::init
ChannelDataInit(d, channel, owned, hashKey) ==
    LET r == ChannelDataDestroy(d)
    IN [data |-> [r.data EXCEPT !.m_pChannel = channel, !.m_Owned = owned,
                                !.m_HashKey = hashKey],
        destroyed |-> r.destroyed]

\* grpc_channel_destroy(c) counted on the channel; NoChannel: no call was made
GrpcChannelDestroy(chs, c) ==
    IF c = NoChannel THEN chs
    ELSE [chs EXCEPT ![c].destroyed = @ + 1]

(***************************************************************************)
(* Channel::__construct                                                    *)
(***************************************************************************)
\* the "credentials" entry of the argument array: none, a
\* Grpc\ChannelCredentials object, or an object of another class
NoCreds == "none"

\* ChannelCredentialsData::hashKey
CredsHashKey(c) == <<1, 49>>

\* what the constructor is called with: two arrays whose concatenations are
\* equal, an array with credentials, an invalid array, a credentials entry
\* of another class
ConstructInputs ==
    { [target |-> StrHost, args |-> << <<VStr(StrAB), VStr(StrC)>> >>,
       creds |-> NoCreds, force_new |-> f] : f \in BOOLEAN }
    \cup
    { [target |-> StrHost, args |-> << <<VStr(StrA), VStr(StrBC)>> >>,
       creds |-> NoCreds, force_new |-> FALSE],
      [target |-> StrHost, args |-> << >>, creds |-> "creds1", force_new |-> FALSE],
      [target |-> StrHost, args |-> << <<VStr(StrN), VNull>> >>,
       creds |-> NoCreds, force_new |-> FALSE],
      [target |-> StrHost, args |-> << >>, creds |-> "otherObject",
       force_new |-> TRUE] }

\* fullCacheKey
FullCacheKey(target, channelArgs, creds) ==
    LET k == SHA1(target \o channelArgs.concatenatedArgs)
    IN IF creds # NoCreds THEN k \o CredsHashKey(creds) ELSE k

Idle == [op |-> "idle"]

\* what an open Channel object was built from
NoInput == [target |-> StrEmpty, args |-> << >>, creds |-> NoCreds]
BuiltFrom(in) == [target |-> in.target, args |-> in.args, creds |-> in.creds]

\* the outcome of a method call: the exception thrown ("none": it returned)
\* and the channel handed to the gRPC core, recorded while outcomes are
\* observed (SpecHandle) and left alone otherwise (Spec)
Unobserved == [t |-> 0, op |-> "unobserved", exc |-> "none", touched |-> 0]

Done(t, op, exc, touched) ==
    IF lastOp = Unobserved THEN lastOp
    ELSE [t |-> t, op |-> op, exc |-> exc, touched |-> touched]

\* mutant: the constructor goes on to the lookup whatever init returned
ConstructBeginNoValidate(t, in) ==
    /\ pc[t] = "idle"
    /\ ~tornDown
    /\ LET r == ChannelArgsInit(ChannelArgsEmpty, in.args)
       IN IF in.creds = "otherObject"
          THEN /\ lastOp' = Done(t, "construct",
                        "credentials must be a Grpc\\ChannelCredentials object", NoChannel)
               /\ UNCHANGED <<pc, loc, readers>>
          ELSE /\ writer = NoThread
               /\ readers' = readers \cup {t}
               /\ pc' = [pc EXCEPT ![t] = "getChannelLocked"]
               /\ loc' = [loc EXCEPT ![t] =
                      [op |-> "construct", in |-> in,
                       fullCacheKey |-> FullCacheKey(in.target, r.obj, in.creds),
                       pChannel |-> NoChannel]]
               /\ lastOp' = lastOp
    /\ UNCHANGED <<m_ChannelMap, writer, channels, channelData, builtFrom, tornDown>>
    /\ UNCHANGED <<argsVars, plugVars, sliceVars>>

\* the constructor up to ReadLock lock{ m_ChannelMapMutex } in getChannel:
\* a throw leaves the thread idle, otherwise the read lock is taken
ConstructBegin(t, in) ==
    /\ pc[t] = "idle"
    /\ ~tornDown
    /\ LET r == ChannelArgsInit(ChannelArgsEmpty, in.args)
       IN IF in.creds = "otherObject"
          THEN /\ lastOp' = Done(t, "construct",
                        "credentials must be a Grpc\\ChannelCredentials object", NoChannel)
               /\ UNCHANGED <<pc, loc, readers>>
          ELSE IF ~r.ok
          THEN /\ lastOp' = Done(t, "construct", "invalid channel arguments", NoChannel)
               /\ UNCHANGED <<pc, loc, readers>>
          ELSE /\ writer = NoThread
               /\ readers' = readers \cup {t}
               /\ pc' = [pc EXCEPT ![t] = "getChannelLocked"]
               /\ loc' = [loc EXCEPT ![t] =
                      [op |-> "construct", in |-> in,
                       fullCacheKey |-> FullCacheKey(in.target, r.obj, in.creds),
                       pChannel |-> NoChannel]]
               /\ lastOp' = lastOp
    /\ UNCHANGED <<m_ChannelMap, writer, channels, channelData, builtFrom, tornDown>>
    /\ UNCHANGED <<argsVars, plugVars, sliceVars>>

\* ChannelsCache::getChannel: the value found, nullptr if there is none
GetChannel(map, channelHash) ==
    IF channelHash \in DOMAIN map THEN map[channelHash] ELSE NoChannel

\* mutant: a lookup that found nothing goes on to the factory with the read
\* lock still held
GetChannelBodyKeepsLock(t) ==
    /\ pc[t] = "getChannelLocked"
    /\ LET pChannel == GetChannel(m_ChannelMap, loc[t].fullCacheKey)
       IN IF ~loc[t].in.force_new /\ pChannel # NoChannel
          THEN LET r == ChannelDataInit(channelData[t], pChannel, FALSE,
                                        loc[t].fullCacheKey)
               IN /\ readers' = readers \ {t}
                  /\ channelData' = [channelData EXCEPT ![t] = r.data]
                  /\ channels' = GrpcChannelDestroy(channels, r.destroyed)
                  /\ pc' = [pc EXCEPT ![t] = "idle"]
                  /\ loc' = [loc EXCEPT ![t] = Idle]
                  /\ builtFrom' = [builtFrom EXCEPT ![t] = BuiltFrom(loc[t].in)]
                  /\ lastOp' = Done(t, "construct", "none", NoChannel)
          ELSE /\ pc' = [pc EXCEPT ![t] = "factory"]
               /\ loc' = [loc EXCEPT ![t].pChannel = pChannel]
               /\ UNCHANGED <<readers, channelData, channels, builtFrom, lastOp>>
    /\ UNCHANGED <<m_ChannelMap, writer, tornDown>>
    /\ UNCHANGED <<argsVars, plugVars, sliceVars>>

\* mutant: the constructor ignores what getChannel found
GetChannelBodyNoHit(t) ==
    /\ pc[t] = "getChannelLocked"
    /\ readers' = readers \ {t}
    /\ pc' = [pc EXCEPT ![t] = "factory"]
    /\ loc' = [loc EXCEPT ![t].pChannel = GetChannel(m_ChannelMap, loc[t].fullCacheKey)]
    /\ UNCHANGED <<channelData, channels, builtFrom, lastOp>>
    /\ UNCHANGED <<m_ChannelMap, writer, tornDown>>
    /\ UNCHANGED <<argsVars, plugVars, sliceVars>>

\* the rest of getChannel, and the constructor's branch on its result
GetChannelBody(t) ==
    /\ pc[t] = "getChannelLocked"
    /\ readers' = readers \ {t}
    /\ LET pChannel == GetChannel(m_ChannelMap, loc[t].fullCacheKey)
       IN IF ~loc[t].in.force_new /\ pChannel # NoChannel
          THEN LET r == ChannelDataInit(channelData[t], pChannel, FALSE,
                                        loc[t].fullCacheKey)
               IN /\ channelData' = [channelData EXCEPT ![t] = r.data]
                  /\ channels' = GrpcChannelDestroy(channels, r.destroyed)
                  /\ pc' = [pc EXCEPT ![t] = "idle"]
                  /\ loc' = [loc EXCEPT ![t] = Idle]
                  /\ builtFrom' = [builtFrom EXCEPT ![t] = BuiltFrom(loc[t].in)]
                  /\ lastOp' = Done(t, "construct", "none", NoChannel)
          ELSE /\ pc' = [pc EXCEPT ![t] = "factory"]
               /\ loc' = [loc EXCEPT ![t].pChannel = pChannel]
               /\ UNCHANGED <<channelData, channels, builtFrom, lastOp>>
    /\ UNCHANGED <<m_ChannelMap, writer, tornDown>>
    /\ UNCHANGED <<argsVars, plugVars, sliceVars>>

\* the record kept of a channel the factory returned
\* (key: the cache key it was created for, found: what the lookup before it
\* returned, cached: it was inserted into the map, destroyed: the number of
\* grpc_channel_destroy calls on it)
NewChannel(t) ==
    [key |-> loc[t].fullCacheKey, found |-> loc[t].pChannel, cached |-> FALSE,
     destroyed |-> 0]

\* grpc_insecure_channel_create / grpc_secure_channel_create returns a
\* channel, and WriteLock lock{ m_ChannelMapMutex } in addChannel is taken
FactoryOk(t) ==
    /\ pc[t] = "factory"
    /\ Len(channels) < MaxChannels
    /\ writer = NoThread
    /\ readers = {}
    /\ writer' = t
    /\ channels' = Append(channels, NewChannel(t))
    /\ loc' = [loc EXCEPT ![t].pChannel = Len(channels) + 1]
    /\ pc' = [pc EXCEPT ![t] = "addChannelLocked"]
    /\ UNCHANGED <<m_ChannelMap, readers, channelData, builtFrom, lastOp, tornDown>>
    /\ UNCHANGED <<argsVars, plugVars, sliceVars>>

\* mutant: a failed factory call leaves an entry without a channel in the map
FactoryFailCaches(t) ==
    /\ pc[t] = "factory"
    /\ pc' = [pc EXCEPT ![t] = "idle"]
    /\ loc' = [loc EXCEPT ![t] = Idle]
    /\ lastOp' = Done(t, "construct", "failed to create channel", NoChannel)
    /\ m_ChannelMap' = [k \in DOMAIN m_ChannelMap \cup {loc[t].fullCacheKey} |->
                          IF k \in DOMAIN m_ChannelMap THEN m_ChannelMap[k] ELSE NoChannel]
    /\ UNCHANGED <<readers, writer, channels, channelData, builtFrom, tornDown>>
    /\ UNCHANGED <<argsVars, plugVars, sliceVars>>

\* the factory returns nullptr: "failed to create channel" is thrown
FactoryFail(t) ==
    /\ pc[t] = "factory"
    /\ pc' = [pc EXCEPT ![t] = "idle"]
    /\ loc' = [loc EXCEPT ![t] = Idle]
    /\ lastOp' = Done(t, "construct", "failed to create channel", NoChannel)
    /\ UNCHANGED <<m_ChannelMap, readers, writer, channels, channelData, builtFrom, tornDown>>
    /\ UNCHANGED <<argsVars, plugVars, sliceVars>>

\* mutant: the insertion replaces an entry (m_ChannelMap[key] = pChannel)
AddChannelOverwrite(map, key, pChannel) ==
    [map |-> [k \in DOMAIN map \cup {key} |-> IF k = key THEN pChannel ELSE map[k]],
     first |-> TRUE, second |-> pChannel]

\* ChannelsCache::addChannel: m_ChannelMap.emplace(key, pChannel)
\* [map |-> the map afterwards, first |-> inserted, second |-> the mapped channel]
AddChannel(map, key, pChannel) ==
    IF key \in DOMAIN map
    THEN [map |-> map, first |-> FALSE, second |-> map[key]]
    ELSE [map |-> [k \in DOMAIN map \cup {key} |->
                      IF k = key THEN pChannel ELSE map[k]],
          first |-> TRUE, second |-> pChannel]

\* mutant: the constructor keeps the channel it created when the insertion
\* found the key cached
AddChannelBodyKeepOwn(t) ==
    /\ pc[t] = "addChannelLocked"
    /\ writer' = NoThread
    /\ LET addResult == AddChannel(m_ChannelMap, loc[t].fullCacheKey, loc[t].pChannel)
           chs1 == IF ~addResult.first
                   THEN channels
                   ELSE [channels EXCEPT ![loc[t].pChannel].cached = TRUE]
           r == ChannelDataInit(channelData[t], loc[t].pChannel, FALSE,
                                loc[t].fullCacheKey)
       IN /\ m_ChannelMap' = addResult.map
          /\ channelData' = [channelData EXCEPT ![t] = r.data]
          /\ channels' = GrpcChannelDestroy(chs1, r.destroyed)
    /\ builtFrom' = [builtFrom EXCEPT ![t] = BuiltFrom(loc[t].in)]
    /\ pc' = [pc EXCEPT ![t] = "idle"]
    /\ loc' = [loc EXCEPT ![t] = Idle]
    /\ lastOp' = Done(t, "construct", "none", NoChannel)
    /\ UNCHANGED <<readers, tornDown>>
    /\ UNCHANGED <<argsVars, plugVars, sliceVars>>

\* mutant: a constructor whose insertion found the key cached destroys the
\* cached channel instead of the one it created
AddChannelBodyDestroysCached(t) ==
    /\ pc[t] = "addChannelLocked"
    /\ writer' = NoThread
    /\ LET addResult == AddChannel(m_ChannelMap, loc[t].fullCacheKey, loc[t].pChannel)
           chs1 == IF ~addResult.first
                   THEN GrpcChannelDestroy(channels, addResult.second)
                   ELSE [channels EXCEPT ![loc[t].pChannel].cached = TRUE]
           pChannel == IF ~addResult.first THEN addResult.second ELSE loc[t].pChannel
           r == ChannelDataInit(channelData[t], pChannel, FALSE, loc[t].fullCacheKey)
       IN /\ m_ChannelMap' = addResult.map
          /\ channelData' = [channelData EXCEPT ![t] = r.data]
          /\ channels' = GrpcChannelDestroy(chs1, r.destroyed)
    /\ builtFrom' = [builtFrom EXCEPT ![t] = BuiltFrom(loc[t].in)]
    /\ pc' = [pc EXCEPT ![t] = "idle"]
    /\ loc' = [loc EXCEPT ![t] = Idle]
    /\ lastOp' = Done(t, "construct", "none", NoChannel)
    /\ UNCHANGED <<readers, tornDown>>
    /\ UNCHANGED <<argsVars, plugVars, sliceVars>>

\* mutant: a constructor whose insertion found the key cached destroys the
\* channel it created and keeps it in its Channel object
AddChannelBodyStoresOwn(t) ==
    /\ pc[t] = "addChannelLocked"
    /\ writer' = NoThread
    /\ LET addResult == AddChannel(m_ChannelMap, loc[t].fullCacheKey, loc[t].pChannel)
           chs1 == IF ~addResult.first
                   THEN GrpcChannelDestroy(channels, loc[t].pChannel)
                   ELSE [channels EXCEPT ![loc[t].pChannel].cached = TRUE]
           r == ChannelDataInit(channelData[t], loc[t].pChannel, FALSE,
                                loc[t].fullCacheKey)
       IN /\ m_ChannelMap' = addResult.map
          /\ channelData' = [channelData EXCEPT ![t] = r.data]
          /\ channels' = GrpcChannelDestroy(chs1, r.destroyed)
    /\ builtFrom' = [builtFrom EXCEPT ![t] = BuiltFrom(loc[t].in)]
    /\ pc' = [pc EXCEPT ![t] = "idle"]
    /\ loc' = [loc EXCEPT ![t] = Idle]
    /\ lastOp' = Done(t, "construct", "none", NoChannel)
    /\ UNCHANGED <<readers, tornDown>>
    /\ UNCHANGED <<argsVars, plugVars, sliceVars>>

\* the rest of addChannel, and the constructor after it
AddChannelBody(t) ==
    /\ pc[t] = "addChannelLocked"
    /\ writer' = NoThread
    /\ LET addResult == AddChannel(m_ChannelMap, loc[t].fullCacheKey, loc[t].pChannel)
           chs1 == IF ~addResult.first
                   THEN GrpcChannelDestroy(channels, loc[t].pChannel)
                   ELSE [channels EXCEPT ![loc[t].pChannel].cached = TRUE]
           pChannel == IF ~addResult.first THEN addResult.second ELSE loc[t].pChannel
           r == ChannelDataInit(channelData[t], pChannel, FALSE, loc[t].fullCacheKey)
       IN /\ m_ChannelMap' = addResult.map
          /\ channelData' = [channelData EXCEPT ![t] = r.data]
          /\ channels' = GrpcChannelDestroy(chs1, r.destroyed)
    /\ builtFrom' = [builtFrom EXCEPT ![t] = BuiltFrom(loc[t].in)]
    /\ pc' = [pc EXCEPT ![t] = "idle"]
    /\ loc' = [loc EXCEPT ![t] = Idle]
    /\ lastOp' = Done(t, "construct", "none", NoChannel)
    /\ UNCHANGED <<readers, tornDown>>
    /\ UNCHANGED <<argsVars, plugVars, sliceVars>>

(***************************************************************************)
(* Channel::getTarget, getConnectivityState, watchConnectivityState, close *)
(***************************************************************************)
ChannelClosed == "Channel already closed."

\* mutant: getTarget without the check of the channel
GetTargetNoCheck(t) ==
    /\ pc[t] = "idle"
    /\ ~tornDown
    /\ lastOp' = Done(t, "getTarget", "none", channelData[t].m_pChannel)
    /\ UNCHANGED <<m_ChannelMap, readers, writer, channels, channelData, builtFrom,
                   pc, loc, tornDown>>
    /\ UNCHANGED <<argsVars, plugVars, sliceVars>>

\* Channel::getTarget
GetTarget(t) ==
    /\ pc[t] = "idle"
    /\ ~tornDown
    /\ lastOp' = IF channelData[t].m_pChannel = NoChannel
                 THEN Done(t, "getTarget", ChannelClosed, NoChannel)
                 ELSE Done(t, "getTarget", "none", channelData[t].m_pChannel)
    /\ UNCHANGED <<m_ChannelMap, readers, writer, channels, channelData, builtFrom,
                   pc, loc, tornDown>>
    /\ UNCHANGED <<argsVars, plugVars, sliceVars>>

\* Channel::getConnectivityState
GetConnectivityState(t) ==
    /\ pc[t] = "idle"
    /\ ~tornDown
    /\ lastOp' = IF channelData[t].m_pChannel = NoChannel
                 THEN Done(t, "getConnectivityState", ChannelClosed, NoChannel)
                 ELSE Done(t, "getConnectivityState", "none", channelData[t].m_pChannel)
    /\ UNCHANGED <<m_ChannelMap, readers, writer, channels, channelData, builtFrom,
                   pc, loc, tornDown>>
    /\ UNCHANGED <<argsVars, plugVars, sliceVars>>

\* Channel::watchConnectivityState: the watch itself is commented out, the
\* method returns true without a call on the channel
WatchConnectivityState(t) ==
    /\ pc[t] = "idle"
    /\ ~tornDown
    /\ lastOp' = IF channelData[t].m_pChannel = NoChannel
                 THEN Done(t, "watchConnectivityState", ChannelClosed, NoChannel)
                 ELSE Done(t, "watchConnectivityState", "none", NoChannel)
    /\ UNCHANGED <<m_ChannelMap, readers, writer, channels, channelData, builtFrom,
                   pc, loc, tornDown>>
    /\ UNCHANGED <<argsVars, plugVars, sliceVars>>


\* mutant: close without the check of the channel
CloseNoCheck(t) ==
    /\ pc[t] = "idle"
    /\ ~tornDown
    /\ LET r == ChannelDataInit(channelData[t], NoChannel, FALSE, StrEmpty)
       IN /\ channelData' = [channelData EXCEPT ![t] = r.data]
          /\ channels' = GrpcChannelDestroy(channels, r.destroyed)
          /\ builtFrom' = [builtFrom EXCEPT ![t] = NoInput]
          /\ lastOp' = Done(t, "close", "none", r.destroyed)
    /\ UNCHANGED <<m_ChannelMap, readers, writer, pc, loc, tornDown>>
    /\ UNCHANGED <<argsVars, plugVars, sliceVars>>

\* Channel::close
Close(t) ==
    /\ pc[t] = "idle"
    /\ ~tornDown
    /\ IF channelData[t].m_pChannel = NoChannel
       THEN /\ lastOp' = Done(t, "close", ChannelClosed, NoChannel)
            /\ UNCHANGED <<channelData, channels, builtFrom>>
       ELSE LET r == ChannelDataInit(channelData[t], NoChannel, FALSE, StrEmpty)
            IN /\ channelData' = [channelData EXCEPT ![t] = r.data]
               /\ channels' = GrpcChannelDestroy(channels, r.destroyed)
               /\ builtFrom' = [builtFrom EXCEPT ![t] = NoInput]
               /\ lastOp' = Done(t, "close", "none", r.destroyed)
    /\ UNCHANGED <<m_ChannelMap, readers, writer, pc, loc, tornDown>>
    /\ UNCHANGED <<argsVars, plugVars, sliceVars>>

\* ChannelData::sweep / ChannelData::~ChannelData at the end of the request
Sweep(t) ==
    /\ pc[t] = "idle"
    /\ ~tornDown
    /\ LET r == ChannelDataDestroy(channelData[t])
       IN /\ channelData' = [channelData EXCEPT ![t] = r.data]
          /\ channels' = GrpcChannelDestroy(channels, r.destroyed)
          /\ lastOp' = Done(t, "sweep", "none", r.destroyed)
    /\ builtFrom' = [builtFrom EXCEPT ![t] = NoInput]
    /\ UNCHANGED <<m_ChannelMap, readers, writer, pc, loc, tornDown>>
    /\ UNCHANGED <<argsVars, plugVars, sliceVars>>

(***************************************************************************)
(* ChannelsCache::deleteChannel and ChannelsCache::~ChannelsCache          *)
(***************************************************************************)
\* the cache keys the constructor inputs lead to
CacheKeys ==
    { FullCacheKey(in.target, ChannelArgsInit(ChannelArgsEmpty, in.args).obj, in.creds) :
        in \in { i \in ConstructInputs :
                   /\ i.creds # "otherObject"
                   /\ ChannelArgsInit(ChannelArgsEmpty, i.args).ok } }

\* deleteChannel is called; WriteLock lock(m_ChannelMapMutex)
DeleteChannelLock(t, channelHash) ==
    /\ pc[t] = "idle"
    /\ ~tornDown
    /\ writer = NoThread
    /\ readers = {}
    /\ writer' = t
    /\ pc' = [pc EXCEPT ![t] = "deleteChannelLocked"]
    /\ loc' = [loc EXCEPT ![t] = [op |-> "deleteChannel", channelHash |-> channelHash]]
    /\ UNCHANGED <<m_ChannelMap, readers, channels, channelData, builtFrom, lastOp,
                   tornDown>>
    /\ UNCHANGED <<argsVars, plugVars, sliceVars>>

\* mutant: the entry is erased and its channel is not destroyed
DeleteChannelNoDestroy(map, channelHash) ==
    IF channelHash \in DOMAIN map
    THEN [map |-> [k \in DOMAIN map \ {channelHash} |-> map[k]],
          destroyed |-> NoChannel]
    ELSE [map |-> map, destroyed |-> NoChannel]

\* mutant: the channel is destroyed and its entry stays in the map
DeleteChannelNoErase(map, channelHash) ==
    IF channelHash \in DOMAIN map
    THEN [map |-> map, destroyed |-> map[channelHash]]
    ELSE [map |-> map, destroyed |-> NoChannel]

\* ChannelsCache::deleteChannel under the lock:
\* [map |-> the map afterwards, destroyed |-> the channel destroyChannel got]
DeleteChannel(map, channelHash) ==
    IF channelHash \in DOMAIN map
    THEN [map |-> [k \in DOMAIN map \ {channelHash} |-> map[k]],
          destroyed |-> map[channelHash]]
    ELSE [map |-> map, destroyed |-> NoChannel]

DeleteChannelBody(t) ==
    /\ pc[t] = "deleteChannelLocked"
    /\ writer' = NoThread
    /\ LET r == DeleteChannel(m_ChannelMap, loc[t].channelHash)
       IN /\ m_ChannelMap' = r.map
          /\ channels' = GrpcChannelDestroy(channels, r.destroyed)
          /\ lastOp' = Done(t, "deleteChannel", "none", r.destroyed)
    /\ pc' = [pc EXCEPT ![t] = "idle"]
    /\ loc' = [loc EXCEPT ![t] = Idle]
    /\ UNCHANGED <<readers, channelData, builtFrom, tornDown>>
    /\ UNCHANGED <<argsVars, plugVars, sliceVars>>

\* mutant: the teardown clears the map and destroys no channel
DestroyAllNone(chs, cs) == chs

\* destroyChannel on every value of the map
RECURSIVE DestroyAll(_, _)
DestroyAll(chs, cs) ==
    IF cs = {} THEN chs
    ELSE LET c == CHOOSE x \in cs : TRUE
         IN DestroyAll(GrpcChannelDestroy(chs, c), cs \ {c})

EmptyMap == [k \in {} |-> NoChannel]

\* ChannelsCache::~ChannelsCache, the static object's destructor at process
\* exit, when no request thread is inside a method; nothing runs after it
Teardown ==
    /\ ~tornDown
    /\ \A t \in Threads : pc[t] = "idle"
    /\ writer = NoThread
    /\ readers = {}
    /\ channels' = DestroyAll(channels, { m_ChannelMap[k] : k \in DOMAIN m_ChannelMap })
    /\ m_ChannelMap' = EmptyMap
    /\ tornDown' = TRUE
    /\ lastOp' = Done(NoThread, "teardown", "none", NoChannel)
    /\ UNCHANGED <<readers, writer, channelData, builtFrom, pc, loc>>
    /\ UNCHANGED <<argsVars, plugVars, sliceVars>>

(***************************************************************************)
(* PluginMetadataInfo: the registry of pending metadata requests           *)
(***************************************************************************)
MaxSlots == 2
MaxDispatches == 3
NumCreds == 2

\* CallCredentialsData identities
CredIds == 1..NumCreds

\* an empty std::weak_ptr
NoSlot == 0

EmptyInfoMap == [c \in {} |-> NoSlot]

\* mutant: the entry is overwritten only when there is none yet
SetInfoKeepFirst(map, pCallCredentials, slot) ==
    IF pCallCredentials \in DOMAIN map THEN map
    ELSE [c \in DOMAIN map \cup {pCallCredentials} |->
             IF c = pCallCredentials THEN slot ELSE map[c]]

\* PluginMetadataInfo::setInfo under the lock: emplace, or update the entry
SetInfo(map, pCallCredentials, slot) ==
    [c \in DOMAIN map \cup {pCallCredentials} |->
        IF c = pCallCredentials THEN slot ELSE map[c]]

\* mutant: getInfo returns the entry and leaves it in the map
GetInfoNoErase(map, pCallCredentials) ==
    IF pCallCredentials \in DOMAIN map
    THEN [map |-> map, info |-> map[pCallCredentials]]
    ELSE [map |-> map, info |-> NoSlot]

\* PluginMetadataInfo::getInfo under the lock:
\* [map |-> the map afterwards, info |-> the weak_ptr returned]
GetInfo(map, pCallCredentials) ==
    IF pCallCredentials \in DOMAIN map
    THEN [map |-> [c \in DOMAIN map \ {pCallCredentials} |-> map[c]],
          info |-> map[pCallCredentials]]
    ELSE [map |-> map, info |-> NoSlot]

\* PluginMetadataInfo::deleteInfo under the lock:
\* [map |-> the map afterwards, ret |-> the return value]
DeleteInfo(map, pCallCredentials) ==
    IF pCallCredentials \in DOMAIN map
    THEN [map |-> [c \in DOMAIN map \ {pCallCredentials} |-> map[c]], ret |-> TRUE]
    ELSE [map |-> map, ret |-> FALSE]

\* a MetaDataInfo slot: the thread of the call that made it, whether the call
\* still holds its shared_ptr, the shared_ptrs dispatchers hold, the promise
\* ("unset" or the params set), the set_value calls on it, whether the call
\* has taken the params from the future, and the completion callbacks and
\* user callbacks run for it
NewSlot(t) ==
    [threadId |-> t, owner |-> TRUE, locks |-> 0, promise |-> [set |-> FALSE],
     sets |-> 0, consumed |-> FALSE, cbCalls |-> << >>, userCalls |-> << >>]

\* the strong reference count of a slot
Strong(slot) == (IF slot.owner THEN 1 ELSE 0) + slot.locks

\* mutant: lock() fails for an empty weak_ptr only
ExpiredOnlyEmpty(wp) == wp = NoSlot

\* std::weak_ptr::lock gives nothing: the weak_ptr is empty, or the slot has
\* no shared_ptr left
Expired(wp) == IF wp = NoSlot THEN TRUE ELSE Strong(slots[wp]) = 0

NoLog == [slot |-> NoSlot, deleted |-> FALSE, results |-> << >>]

\* a call on thread t with credentials c makes its slot and registers it
\* (setInfo takes and releases m_Lock)
StartCall(t, c) ==
    /\ dpc[t] = "idle"
    /\ Len(slots) < MaxSlots
    /\ m_Lock = NoThread
    /\ slots' = Append(slots, NewSlot(t))
    /\ m_MetaDataMap' = SetInfo(m_MetaDataMap, c, Len(slots) + 1)
    /\ infoLog' = [infoLog EXCEPT ![c] =
                      [slot |-> Len(slots) + 1, deleted |-> FALSE, results |-> << >>]]
    /\ UNCHANGED <<m_Lock, dpc, dloc, dispatched>>
    /\ UNCHANGED <<argsVars, chanVars, sliceVars>>

\* the call that made slot s releases its shared_ptr: it is over, or timed out
DropSlot(s) ==
    /\ s \in DOMAIN slots
    /\ slots[s].owner
    /\ slots' = [slots EXCEPT ![s].owner = FALSE]
    /\ UNCHANGED <<m_MetaDataMap, m_Lock, dpc, dloc, infoLog, dispatched>>
    /\ UNCHANGED <<argsVars, chanVars, sliceVars>>

\* PluginMetadataInfo::deleteInfo (takes and releases m_Lock)
DeleteInfoCall(t, c) ==
    /\ dpc[t] = "idle"
    /\ m_Lock = NoThread
    /\ LET r == DeleteInfo(m_MetaDataMap, c)
       IN /\ m_MetaDataMap' = r.map
          /\ infoLog' = IF r.ret THEN [infoLog EXCEPT ![c].deleted = TRUE] ELSE infoLog
    /\ UNCHANGED <<m_Lock, slots, dpc, dloc, dispatched>>
    /\ UNCHANGED <<argsVars, chanVars, sliceVars>>

(***************************************************************************)
(* plugin_get_metadata                                                     *)
(***************************************************************************)
DIdle == [op |-> "idle"]

\* the gRPC core calls plugin_get_metadata for credentials c on thread e; the
\* lock_guard of getInfo is taken
PluginGetMetadata(e, c) ==
    /\ dpc[e] = "idle"
    /\ dispatched < MaxDispatches
    /\ m_Lock = NoThread
    /\ m_Lock' = e
    /\ dispatched' = dispatched + 1
    /\ dpc' = [dpc EXCEPT ![e] = "getInfoLocked"]
    /\ dloc' = [dloc EXCEPT ![e] = [op |-> "plugin_get_metadata", c |-> c,
                                    wpMetaDataInfo |-> NoSlot]]
    /\ UNCHANGED <<m_MetaDataMap, slots, infoLog>>
    /\ UNCHANGED <<argsVars, chanVars, sliceVars>>

\* mutant: getInfo returns with m_Lock still held
GetInfoBodyKeepsLock(e) ==
    /\ dpc[e] = "getInfoLocked"
    /\ LET r == GetInfo(m_MetaDataMap, dloc[e].c)
       IN /\ m_MetaDataMap' = r.map
          /\ dloc' = [dloc EXCEPT ![e].wpMetaDataInfo = r.info]
          /\ infoLog' = [infoLog EXCEPT ![dloc[e].c].results = Append(@, r.info)]
    /\ m_Lock' = m_Lock
    /\ dpc' = [dpc EXCEPT ![e] = "lock"]
    /\ UNCHANGED <<slots, dispatched>>
    /\ UNCHANGED <<argsVars, chanVars, sliceVars>>

\* mutant: getInfo returns the weak_ptr and leaves the entry in the map
GetInfoBodyNoErase(e) ==
    /\ dpc[e] = "getInfoLocked"
    /\ LET r == GetInfo(m_MetaDataMap, dloc[e].c)
       IN /\ m_MetaDataMap' = m_MetaDataMap
          /\ dloc' = [dloc EXCEPT ![e].wpMetaDataInfo = r.info]
          /\ infoLog' = [infoLog EXCEPT ![dloc[e].c].results = Append(@, r.info)]
    /\ m_Lock' = NoThread
    /\ dpc' = [dpc EXCEPT ![e] = "lock"]
    /\ UNCHANGED <<slots, dispatched>>
    /\ UNCHANGED <<argsVars, chanVars, sliceVars>>

\* the rest of getInfo: find, move the weak_ptr out, erase, unlock, return
GetInfoBody(e) ==
    /\ dpc[e] = "getInfoLocked"
    /\ LET r == GetInfo(m_MetaDataMap, dloc[e].c)
       IN /\ m_MetaDataMap' = r.map
          /\ dloc' = [dloc EXCEPT ![e].wpMetaDataInfo = r.info]
          /\ infoLog' = [infoLog EXCEPT ![dloc[e].c].results = Append(@, r.info)]
    /\ m_Lock' = NoThread
    /\ dpc' = [dpc EXCEPT ![e] = "lock"]
    /\ UNCHANGED <<slots, dispatched>>
    /\ UNCHANGED <<argsVars, chanVars, sliceVars>>

\* wpMetaDataInfo.lock() gives no shared_ptr: return
LockFails(e) ==
    /\ dpc[e] = "lock"
    /\ Expired(dloc[e].wpMetaDataInfo)
    /\ dpc' = [dpc EXCEPT ![e] = "idle"]
    /\ dloc' = [dloc EXCEPT ![e] = DIdle]
    /\ UNCHANGED <<m_MetaDataMap, m_Lock, slots, infoLog, dispatched>>
    /\ UNCHANGED <<argsVars, chanVars, sliceVars>>

\* wpMetaDataInfo.lock() gives a shared_ptr of the slot
LockOk(e) ==
    /\ dpc[e] = "lock"
    /\ ~Expired(dloc[e].wpMetaDataInfo)
    /\ slots' = [slots EXCEPT ![dloc[e].wpMetaDataInfo].locks = @ + 1]
    /\ dpc' = [dpc EXCEPT ![e] = "locked"]
    /\ UNCHANGED <<m_MetaDataMap, m_Lock, dloc, infoLog, dispatched>>
    /\ UNCHANGED <<argsVars, chanVars, sliceVars>>

\* what the user callback returns: null, a value that is no array, an array
\* MetadataArray::init rejects, an array it accepts
CallbackReturns == {"null", "nonArray", "malformed", "metadata"}

\* mutant: every returned value is taken for valid metadata
StatusOfOk(retVal) == "GRPC_STATUS_OK"

\* plugin_do_get_metadata: the status handed to the completion callback
StatusOf(retVal) ==
    IF retVal = "null" \/ retVal = "nonArray" THEN "GRPC_STATUS_UNKNOWN"
    ELSE IF retVal = "malformed" THEN "GRPC_STATUS_INVALID_ARGUMENT"
    ELSE "GRPC_STATUS_OK"

\* plugin_do_get_metadata: the metadata handed to the completion callback
\* (nullptr, 0) or (metadata.data(), metadata.size())
DeliveryOf(retVal) == IF StatusOf(retVal) = "GRPC_STATUS_OK" THEN retVal ELSE "empty"

\* plugin_do_get_metadata run by thread e for a slot: the user callback is
\* called, then the completion callback once;
\* [slot |-> the slot afterwards, ret |-> the return value]
PluginDoGetMetadata(slot, e, role, retVal) ==
    [slot |-> [slot EXCEPT
                 !.userCalls = Append(@, [by |-> e, role |-> role]),
                 !.cbCalls = Append(@, [by |-> e, role |-> role, retVal |-> retVal,
                                        status |-> StatusOf(retVal),
                                        delivery |-> DeliveryOf(retVal)])],
     ret |-> (StatusOf(retVal) = "GRPC_STATUS_OK")]

\* mutant: the same-thread params report success whatever
\* plugin_do_get_metadata returned
DoGetMetadataResultTrue(e, retVal) ==
    /\ dpc[e] = "locked"
    /\ slots[dloc[e].wpMetaDataInfo].threadId = e
    /\ LET r == PluginDoGetMetadata(slots[dloc[e].wpMetaDataInfo], e, "dispatcher", retVal)
       IN /\ slots' = [slots EXCEPT ![dloc[e].wpMetaDataInfo] = r.slot]
          /\ dloc' = [dloc EXCEPT ![e] =
                [op |-> "plugin_get_metadata", c |-> dloc[e].c,
                 wpMetaDataInfo |-> dloc[e].wpMetaDataInfo,
                 params |-> [set |-> TRUE, completed |-> TRUE, result |-> TRUE]]]
    /\ dpc' = [dpc EXCEPT ![e] = "setValue"]
    /\ UNCHANGED <<m_MetaDataMap, m_Lock, infoLog, dispatched>>
    /\ UNCHANGED <<argsVars, chanVars, sliceVars>>

\* mutant: the same-thread params do not say that the callbacks have run
DoGetMetadataNotCompleted(e, retVal) ==
    /\ dpc[e] = "locked"
    /\ slots[dloc[e].wpMetaDataInfo].threadId = e
    /\ LET r == PluginDoGetMetadata(slots[dloc[e].wpMetaDataInfo], e, "dispatcher", retVal)
       IN /\ slots' = [slots EXCEPT ![dloc[e].wpMetaDataInfo] = r.slot]
          /\ dloc' = [dloc EXCEPT ![e] =
                [op |-> "plugin_get_metadata", c |-> dloc[e].c,
                 wpMetaDataInfo |-> dloc[e].wpMetaDataInfo,
                 params |-> [set |-> TRUE, completed |-> FALSE, result |-> FALSE]]]
    /\ dpc' = [dpc EXCEPT ![e] = "setValue"]
    /\ UNCHANGED <<m_MetaDataMap, m_Lock, infoLog, dispatched>>
    /\ UNCHANGED <<argsVars, chanVars, sliceVars>>

\* same thread: plugin_do_get_metadata runs the user callback and the
\* completion callback; the params for the promise are built
DoGetMetadata(e, retVal) ==
    /\ dpc[e] = "locked"
    /\ slots[dloc[e].wpMetaDataInfo].threadId = e
    /\ LET r == PluginDoGetMetadata(slots[dloc[e].wpMetaDataInfo], e, "dispatcher", retVal)
       IN /\ slots' = [slots EXCEPT ![dloc[e].wpMetaDataInfo] = r.slot]
          /\ dloc' = [dloc EXCEPT ![e] =
                [op |-> "plugin_get_metadata", c |-> dloc[e].c,
                 wpMetaDataInfo |-> dloc[e].wpMetaDataInfo,
                 params |-> [set |-> TRUE, completed |-> TRUE, result |-> r.ret]]]
    /\ dpc' = [dpc EXCEPT ![e] = "setValue"]
    /\ UNCHANGED <<m_MetaDataMap, m_Lock, infoLog, dispatched>>
    /\ UNCHANGED <<argsVars, chanVars, sliceVars>>

\* mutant: the other-thread params claim the callbacks have run
BuildParamsCompleted(e) ==
    /\ dpc[e] = "locked"
    /\ slots[dloc[e].wpMetaDataInfo].threadId # e
    /\ dloc' = [dloc EXCEPT ![e] =
          [op |-> "plugin_get_metadata", c |-> dloc[e].c,
           wpMetaDataInfo |-> dloc[e].wpMetaDataInfo,
           params |-> [set |-> TRUE, completed |-> TRUE, result |-> FALSE]]]
    /\ dpc' = [dpc EXCEPT ![e] = "setValue"]
    /\ UNCHANGED <<m_MetaDataMap, m_Lock, slots, infoLog, dispatched>>
    /\ UNCHANGED <<argsVars, chanVars, sliceVars>>

\* another thread: the params for the promise are built without a callback
BuildParams(e) ==
    /\ dpc[e] = "locked"
    /\ slots[dloc[e].wpMetaDataInfo].threadId # e
    /\ dloc' = [dloc EXCEPT ![e] =
          [op |-> "plugin_get_metadata", c |-> dloc[e].c,
           wpMetaDataInfo |-> dloc[e].wpMetaDataInfo,
           params |-> [set |-> TRUE, completed |-> FALSE, result |-> FALSE]]]
    /\ dpc' = [dpc EXCEPT ![e] = "setValue"]
    /\ UNCHANGED <<m_MetaDataMap, m_Lock, slots, infoLog, dispatched>>
    /\ UNCHANGED <<argsVars, chanVars, sliceVars>>

\* metaDataPromise.set_value(params), then the shared_ptr goes out of scope
SetValue(e) ==
    /\ dpc[e] = "setValue"
    /\ slots' = [slots EXCEPT
          ![dloc[e].wpMetaDataInfo].promise = IF @.set THEN @ ELSE dloc[e].params,
          ![dloc[e].wpMetaDataInfo].sets = @ + 1,
          ![dloc[e].wpMetaDataInfo].locks = @ - 1]
    /\ dpc' = [dpc EXCEPT ![e] = "idle"]
    /\ dloc' = [dloc EXCEPT ![e] = DIdle]
    /\ UNCHANGED <<m_MetaDataMap, m_Lock, infoLog, dispatched>>
    /\ UNCHANGED <<argsVars, chanVars, sliceVars>>

\* the call that made slot s, blocked on the future of its promise, takes
\* the params: if the dispatcher left the callback to it (completed is
\* false) it runs plugin_do_get_metadata on its own thread
AwaitFuture(s, retVal) ==
    /\ s \in DOMAIN slots
    /\ slots[s].owner
    /\ slots[s].promise.set
    /\ ~slots[s].consumed
    /\ dpc[slots[s].threadId] = "idle"
    /\ slots' = [slots EXCEPT ![s] =
          IF slots[s].promise.completed
          THEN [slots[s] EXCEPT !.consumed = TRUE]
          ELSE [PluginDoGetMetadata(slots[s], slots[s].threadId, "call", retVal).slot
                   EXCEPT !.consumed = TRUE]]
    /\ UNCHANGED <<m_MetaDataMap, m_Lock, dpc, dloc, infoLog, dispatched>>
    /\ UNCHANGED <<argsVars, chanVars, sliceVars>>

PlugInit ==
    /\ m_MetaDataMap = EmptyInfoMap
    /\ m_Lock = NoThread
    /\ slots = << >>
    /\ dpc = [t \in Threads |-> "idle"]
    /\ dloc = [t \in Threads |-> DIdle]
    /\ infoLog = [c \in CredIds |-> NoLog]
    /\ dispatched = 0

NextPlugin ==
    \/ \E t \in Threads, c \in CredIds : StartCall(t, c)
    \/ \E s \in 1..MaxSlots : DropSlot(s)
    \/ \E t \in Threads, c \in CredIds : DeleteInfoCall(t, c)
    \/ \E e \in Threads, c \in CredIds : PluginGetMetadata(e, c)
    \/ \E e \in Threads : GetInfoBody(e)
    \/ \E e \in Threads : LockFails(e)
    \/ \E e \in Threads : LockOk(e)
    \/ \E e \in Threads, r \in CallbackReturns : DoGetMetadata(e, r)
    \/ \E e \in Threads : BuildParams(e)
    \/ \E e \in Threads : SetValue(e)
    \/ \E s \in 1..MaxSlots, r \in CallbackReturns : AwaitFuture(s, r)

\* a call that waits for its metadata request: it releases its shared_ptr
\* only once it has taken the params, or while no dispatcher has resolved
\* the slot
DropSlotWaiting(s) ==
    /\ DropSlot(s)
    /\ \/ slots[s].consumed
       \/ ~slots[s].promise.set /\ \A e \in Threads : ~(dpc[e] \in {"locked", "setValue"}
                                                        /\ dloc[e].wpMetaDataInfo = s)

NextAwait ==
    \/ \E t \in Threads, c \in CredIds : StartCall(t, c)
    \/ \E s \in 1..MaxSlots : DropSlotWaiting(s)
    \/ \E t \in Threads, c \in CredIds : DeleteInfoCall(t, c)
    \/ \E e \in Threads, c \in CredIds : PluginGetMetadata(e, c)
    \/ \E e \in Threads : GetInfoBody(e)
    \/ \E e \in Threads : LockFails(e)
    \/ \E e \in Threads : LockOk(e)
    \/ \E e \in Threads, r \in CallbackReturns : DoGetMetadata(e, r)
    \/ \E e \in Threads : BuildParams(e)
    \/ \E e \in Threads : SetValue(e)
    \/ \E s \in 1..MaxSlots, r \in CallbackReturns : AwaitFuture(s, r)

\* a running plugin_get_metadata runs to its end, and a call blocked on a
\* fulfilled promise wakes up
DispatcherStep ==
    \E e \in Threads :
       \/ GetInfoBody(e) \/ LockFails(e) \/ LockOk(e) \/ BuildParams(e) \/ SetValue(e)
       \/ \E r \in CallbackReturns : DoGetMetadata(e, r)

FutureStep == \E s \in 1..MaxSlots, r \in CallbackReturns : AwaitFuture(s, r)

(***************************************************************************)
(* Slice: the C++ wrapper of a grpc_slice and its reference count          *)
(***************************************************************************)
MaxSliceObjs == 3
MaxBuffers == 2
MaxRefs == 2

SliceObjs == 1..MaxSliceObjs

\* grpc_empty_slice(): a slice without a reference-counted buffer
NoBuffer == 0

\* a Slice object: "none" before its constructor, "live", "destroyed" after
\* its destructor; m_Slice is the buffer its grpc_slice points to
NoObject == [state |-> "none", m_Slice |-> NoBuffer]

\* a buffer as grpc_slice_from_copied_buffer returns it: reference count 1,
\* no gpr_slice_ref and no gpr_slice_unref call yet
NewBuffer == [refs |-> 0, unrefs |-> 0]

\* the reference count of buffer b; the buffer is freed when it reaches 0
Count(bufs, b) == 1 + bufs[b].refs - bufs[b].unrefs

\* gpr_slice_ref / gpr_slice_unref are called on a buffer that was freed
Dangling(bufs, b) == IF b = NoBuffer THEN FALSE ELSE Count(bufs, b) <= 0

\* Slice::increaseRef: gpr_slice_ref(m_Slice), nothing for the empty slice
IncreaseRef(bufs, b) ==
    IF b = NoBuffer THEN bufs ELSE [bufs EXCEPT ![b].refs = @ + 1]

\* Slice::destroy: gpr_slice_unref(m_Slice), nothing for the empty slice
SliceDestroy(bufs, b) ==
    IF b = NoBuffer THEN bufs ELSE [bufs EXCEPT ![b].unrefs = @ + 1]

\* the calls of gpr_slice_ref are capped
MayRef(b) == IF b = NoBuffer THEN TRUE ELSE buffers[b].refs < MaxRefs

\* Slice(string), Slice(const char*), Slice(const char*, length),
\* Slice(buffer): the slice gets a buffer of its own
SliceFromBuffer(o) ==
    /\ ~sliceUB
    /\ sliceObjs[o].state = "none"
    /\ Len(buffers) < MaxBuffers
    /\ buffers' = Append(buffers, NewBuffer)
    /\ sliceObjs' = [sliceObjs EXCEPT ![o] =
                        [state |-> "live", m_Slice |-> Len(buffers) + 1]]
    /\ UNCHANGED sliceUB
    /\ UNCHANGED <<argsVars, chanVars, plugVars>>

\* Slice(nullptr), Slice(no buffer): grpc_empty_slice()
SliceEmpty(o) ==
    /\ ~sliceUB
    /\ sliceObjs[o].state = "none"
    /\ sliceObjs' = [sliceObjs EXCEPT ![o] = [state |-> "live", m_Slice |-> NoBuffer]]
    /\ UNCHANGED <<buffers, sliceUB>>
    /\ UNCHANGED <<argsVars, chanVars, plugVars>>

\* Slice(const Slice& otherSlice)
SliceCopy(o, otherSlice) ==
    /\ ~sliceUB
    /\ sliceObjs[o].state = "none"
    /\ sliceObjs[otherSlice].state = "live"
    /\ MayRef(sliceObjs[otherSlice].m_Slice)
    /\ sliceObjs' = [sliceObjs EXCEPT ![o] =
                        [state |-> "live", m_Slice |-> sliceObjs[otherSlice].m_Slice]]
    /\ buffers' = IncreaseRef(buffers, sliceObjs[otherSlice].m_Slice)
    /\ sliceUB' = Dangling(buffers, sliceObjs[otherSlice].m_Slice)
    /\ UNCHANGED <<argsVars, chanVars, plugVars>>

\* Slice(Slice&& otherSlice): m_Slice is copied, otherSlice keeps its own
SliceMove(o, otherSlice) ==
    /\ ~sliceUB
    /\ sliceObjs[o].state = "none"
    /\ sliceObjs[otherSlice].state = "live"
    /\ sliceObjs' = [sliceObjs EXCEPT ![o] =
                        [state |-> "live", m_Slice |-> sliceObjs[otherSlice].m_Slice]]
    /\ UNCHANGED <<buffers, sliceUB>>
    /\ UNCHANGED <<argsVars, chanVars, plugVars>>

\* operator=(const Slice& rhsSlice) on another object: destroy(), copy,
\* increaseRef() (on the object itself it does nothing)
SliceCopyAssign(o, rhsSlice) ==
    /\ ~sliceUB
    /\ o # rhsSlice
    /\ sliceObjs[o].state = "live"
    /\ sliceObjs[rhsSlice].state = "live"
    /\ MayRef(sliceObjs[rhsSlice].m_Slice)
    /\ LET old == sliceObjs[o].m_Slice
           new == sliceObjs[rhsSlice].m_Slice
           bufs1 == SliceDestroy(buffers, old)
       IN /\ buffers' = IncreaseRef(bufs1, new)
          /\ sliceUB' = (Dangling(buffers, old) \/ Dangling(bufs1, new))
          /\ sliceObjs' = [sliceObjs EXCEPT ![o].m_Slice = new]
    /\ UNCHANGED <<argsVars, chanVars, plugVars>>

\* operator=(Slice&& rhsSlice) on another object: std::swap of the m_Slice
SliceMoveAssign(o, rhsSlice) ==
    /\ ~sliceUB
    /\ o # rhsSlice
    /\ sliceObjs[o].state = "live"
    /\ sliceObjs[rhsSlice].state = "live"
    /\ sliceObjs[o].m_Slice # sliceObjs[rhsSlice].m_Slice
    /\ sliceObjs' = [sliceObjs EXCEPT ![o].m_Slice = sliceObjs[rhsSlice].m_Slice,
                                      ![rhsSlice].m_Slice = sliceObjs[o].m_Slice]
    /\ UNCHANGED <<buffers, sliceUB>>
    /\ UNCHANGED <<argsVars, chanVars, plugVars>>

\* ~Slice: destroy()
SliceDestructor(o) ==
    /\ ~sliceUB
    /\ sliceObjs[o].state = "live"
    /\ buffers' = SliceDestroy(buffers, sliceObjs[o].m_Slice)
    /\ sliceUB' = Dangling(buffers, sliceObjs[o].m_Slice)
    /\ sliceObjs' = [sliceObjs EXCEPT ![o].state = "destroyed"]
    /\ UNCHANGED <<argsVars, chanVars, plugVars>>

SliceInit ==
    /\ sliceObjs = [o \in SliceObjs |-> NoObject]
    /\ buffers = << >>
    /\ sliceUB = FALSE

NextSlice ==
    \/ \E o \in SliceObjs : SliceFromBuffer(o)
    \/ \E o \in SliceObjs : SliceEmpty(o)
    \/ \E o, other \in SliceObjs : SliceCopy(o, other)
    \/ \E o, other \in SliceObjs : SliceMove(o, other)
    \/ \E o, rhs \in SliceObjs : SliceCopyAssign(o, rhs)
    \/ \E o, rhs \in SliceObjs : SliceMoveAssign(o, rhs)
    \/ \E o \in SliceObjs : SliceDestructor(o)

(***************************************************************************)
(* Specifications                                                          *)
(***************************************************************************)
\* a Channel object before its constructor ran: m_pChannel is nullptr,
\* m_Owned has no initializer in the constructor
ChannelDataNew ==
    { [m_pChannel |-> NoChannel, m_Owned |-> o, m_HashKey |-> StrEmpty] : o \in BOOLEAN }

ChanInit ==
    /\ m_ChannelMap = EmptyMap
    /\ readers = {}
    /\ writer = NoThread
    /\ channels = << >>
    /\ channelData \in [Threads -> ChannelDataNew]
    /\ builtFrom = [t \in Threads |-> NoInput]
    /\ pc = [t \in Threads |-> "idle"]
    /\ loc = [t \in Threads |-> Idle]
    /\ tornDown = FALSE

Init == ArgsIdle /\ ChanInit /\ lastOp = Unobserved /\ PlugInit /\ SliceInit

Next ==
    \/ \E t \in Threads, in \in ConstructInputs : ConstructBegin(t, in)
    \/ \E t \in Threads : GetChannelBody(t)
    \/ \E t \in Threads : FactoryOk(t)
    \/ \E t \in Threads : FactoryFail(t)
    \/ \E t \in Threads : AddChannelBody(t)
    \/ \E t \in Threads : GetTarget(t)
    \/ \E t \in Threads : GetConnectivityState(t)
    \/ \E t \in Threads : WatchConnectivityState(t)
    \/ \E t \in Threads : Close(t)
    \/ \E t \in Threads : Sweep(t)
    \/ \E t \in Threads, k \in CacheKeys : DeleteChannelLock(t, k)
    \/ \E t \in Threads : DeleteChannelBody(t)
    \/ Teardown

Spec == Init /\ [][Next]_vars

\* the Channel methods of the first HandleThreads request threads, with the
\* outcome of every call recorded
HandleThreads == 1

NoOutcome == [t |-> 0, op |-> "none", exc |-> "none", touched |-> 0]

InitHandle == ArgsIdle /\ ChanInit /\ lastOp = NoOutcome /\ PlugInit /\ SliceInit

NextHandle ==
    \/ \E t \in 1..HandleThreads, in \in ConstructInputs : ConstructBegin(t, in)
    \/ \E t \in 1..HandleThreads : GetChannelBody(t)
    \/ \E t \in 1..HandleThreads : FactoryOk(t)
    \/ \E t \in 1..HandleThreads : FactoryFail(t)
    \/ \E t \in 1..HandleThreads : AddChannelBody(t)
    \/ \E t \in 1..HandleThreads : GetTarget(t)
    \/ \E t \in 1..HandleThreads : GetConnectivityState(t)
    \/ \E t \in 1..HandleThreads : WatchConnectivityState(t)
    \/ \E t \in 1..HandleThreads : Close(t)
    \/ \E t \in 1..HandleThreads : Sweep(t)
    \/ \E t \in 1..HandleThreads, k \in CacheKeys : DeleteChannelLock(t, k)
    \/ \E t \in 1..HandleThreads : DeleteChannelBody(t)
    \/ Teardown

SpecHandle == InitHandle /\ [][NextHandle]_vars

NextArgs == \E a \in ArgArrays : ArgsInit(a)

\* no Channel object has been constructed
ChanIdle ==
    /\ ChanInit
    /\ \A t \in Threads : ~channelData[t].m_Owned

InitArgs == ArgsInitInit /\ ChanIdle /\ lastOp = Unobserved /\ PlugInit /\ SliceInit

InitPlugin == ArgsIdle /\ ChanIdle /\ lastOp = Unobserved /\ PlugInit /\ SliceInit

SpecPlugin == InitPlugin /\ [][NextPlugin]_vars

SpecArgs == InitArgs /\ [][NextArgs]_vars

\* the registry and the dispatcher with calls that keep waiting for their
\* metadata request
SpecAwait ==
    InitPlugin /\ [][NextAwait]_vars /\ WF_vars(DispatcherStep) /\ WF_vars(FutureStep)

\* the constructors, assignments and the destructor of Slice objects
SpecSlice == InitPlugin /\ [][NextSlice]_vars

(***************************************************************************)
(* Properties                                                              *)
(***************************************************************************)
Open(t) == channelData[t].m_pChannel # NoChannel

\* the constructor call that created channel c has left addChannel
Finished(c) ==
    \A t \in Threads : ~(pc[t] = "addChannelLocked" /\ loc[t].pChannel = c)

\* no entry of the cache has been destroyed by deleteChannel or the teardown
NoEvict == \A c \in DOMAIN channels : ~(channels[c].cached /\ channels[c].destroyed > 0)

Made(k) == { c \in DOMAIN channels : channels[c].key = k /\ Finished(c) }

\* C2: of the channels that racing constructors created for one key, exactly
\* one is in the cache and alive, every other one was destroyed (once), so
\* all but one are destroyed, and every Channel object opened under the key
\* holds the cached one.
C2_RaceOneWinner ==
    NoEvict =>
      \A k \in CacheKeys :
         Made(k) # {} =>
            /\ k \in DOMAIN m_ChannelMap
            /\ m_ChannelMap[k] \in Made(k)
            /\ channels[m_ChannelMap[k]].destroyed = 0
            /\ \A c \in Made(k) \ {m_ChannelMap[k]} : channels[c].destroyed = 1
            /\ Cardinality({ c \in Made(k) : channels[c].destroyed > 0 })
                  = Cardinality(Made(k)) - 1
            /\ \A t \in Threads :
                 (pc[t] = "idle" /\ Open(t) /\ channelData[t].m_HashKey = k)
                    => channelData[t].m_pChannel = m_ChannelMap[k]

\* C2 witness: every thread missed the lookup for the same key and created a
\* channel; all have returned and hold the cached one
C2_Witness ==
    \E k \in CacheKeys :
       /\ Cardinality(Made(k)) = NumThreads
       /\ \A c \in Made(k) : channels[c].found = NoChannel
       /\ NoEvict
       /\ \A t \in Threads :
            pc[t] = "idle" /\ Open(t) /\ channelData[t].m_HashKey = k
            /\ channelData[t].m_pChannel = m_ChannelMap[k]

\* thread t leaves addChannel and the constructor in this step
ConstructReturns(t) == pc[t] = "addChannelLocked" /\ pc'[t] = "idle"

\* C5: a constructor called with force_new while a channel is cached under
\* the key returns with its Channel object on the channel it created itself,
\* which is not the cached one and has not been destroyed.
C5_ForceNewDistinct ==
    [][\A t \in Threads :
         (ConstructReturns(t) /\ channels[loc[t].pChannel].found # NoChannel)
            => /\ channelData'[t].m_pChannel = loc[t].pChannel
               /\ channelData'[t].m_pChannel # channels[loc[t].pChannel].found
               /\ channels'[loc[t].pChannel].destroyed = 0]_vars

\* thread t finishes deleteChannel(k) in this step
EvictStep(t, k) ==
    pc[t] = "deleteChannelLocked" /\ loc[t].channelHash = k /\ pc'[t] = "idle"

\* C6: insertion never replaces.  A key of the cache keeps its channel in
\* every step, except the step of a deleteChannel of that key and the
\* teardown.
C6_NeverReplaces ==
    [][\A k \in DOMAIN m_ChannelMap :
          \/ k \in DOMAIN m_ChannelMap' /\ m_ChannelMap'[k] = m_ChannelMap[k]
          \/ \E t \in Threads : EvictStep(t, k)
          \/ tornDown']_vars

\* C6 witness: a force_new constructor that found the key cached has
\* returned, and the cache still holds the channel it found
C6_Witness ==
    \E c \in DOMAIN channels :
       /\ channels[c].found # NoChannel
       /\ Finished(c)
       /\ channels[c].key \in DOMAIN m_ChannelMap
       /\ m_ChannelMap[channels[c].key] = channels[c].found

\* C9: deleteChannel of a cached key destroys the cached channel and erases
\* the entry, deleteChannel of any other key changes neither the map nor a
\* channel, and the cache never holds a destroyed channel: a constructor
\* after the evict finds no entry and caches a channel of its own.
C9_Evict ==
    /\ [][\A t \in Threads, k \in CacheKeys :
            EvictStep(t, k) =>
               IF k \in DOMAIN m_ChannelMap
               THEN /\ k \notin DOMAIN m_ChannelMap'
                    /\ channels' = [channels EXCEPT ![m_ChannelMap[k]].destroyed = @ + 1]
                    /\ \A j \in DOMAIN m_ChannelMap \ {k} :
                          j \in DOMAIN m_ChannelMap' /\ m_ChannelMap'[j] = m_ChannelMap[j]
               ELSE m_ChannelMap' = m_ChannelMap /\ channels' = channels]_vars
    /\ [](\A k \in DOMAIN m_ChannelMap : channels[m_ChannelMap[k]].destroyed = 0)

\* C9 witness: a cached channel was evicted, and a later constructor cached
\* another channel under the same key
C9_Witness ==
    \E c \in DOMAIN channels :
       /\ channels[c].cached /\ channels[c].destroyed = 1
       /\ channels[c].key \in DOMAIN m_ChannelMap
       /\ m_ChannelMap[channels[c].key] # c
       /\ channels[m_ChannelMap[channels[c].key]].found = NoChannel
       /\ ~tornDown

\* a method call of thread t ends in this step with the outcome lastOp'
Returns(t, op) == lastOp'.op = op /\ lastOp'.t = t /\ lastOp' # lastOp

\* C7 as claimed: close() on a Channel object that close() has just closed
\* succeeds without error and changes nothing.
C7_CloseIdempotent ==
    [][\A t \in Threads :
         (lastOp.op = "close" /\ lastOp.t = t /\ lastOp.exc = "none" /\ Returns(t, "close"))
            => lastOp'.exc = "none" /\ UNCHANGED <<channelData, channels>>]_vars

\* C7 as amended: close() on a closed Channel object throws "Channel already
\* closed."; the object stays closed, no channel is destroyed and the cache
\* is not changed.
C7_CloseClosedThrows ==
    [][\A t \in Threads :
         (Returns(t, "close") /\ ~Open(t))
            => /\ lastOp'.exc = ChannelClosed
               /\ lastOp'.touched = NoChannel
               /\ UNCHANGED <<channelData, channels, m_ChannelMap>>]_vars

\* C7 witness: a constructed and since closed Channel object was closed again
C7_Witness ==
    /\ lastOp.op = "close" /\ lastOp.exc = ChannelClosed
    /\ Len(channels) > 0
    /\ pc[lastOp.t] = "idle"
    /\ ~Open(lastOp.t)
    /\ channels[1].destroyed = 0

Accessors == {"getTarget", "getConnectivityState", "watchConnectivityState"}

\* C8: an accessor called on a closed Channel object throws "Channel already
\* closed." and hands no channel to the gRPC core; called on an open one it
\* does not throw that error.
C8_AccessorsClosed ==
    lastOp.op \in Accessors =>
       /\ ~Open(lastOp.t) => lastOp.exc = ChannelClosed /\ lastOp.touched = NoChannel
       /\ Open(lastOp.t) => lastOp.exc = "none"

\* C8 witness: an accessor threw on a Channel object that was constructed and
\* closed
C8_Witness ==
    /\ lastOp.op \in Accessors /\ lastOp.exc = ChannelClosed
    /\ Len(channels) > 0
    /\ pc[lastOp.t] = "idle"
    /\ builtFrom[lastOp.t] = NoInput
    /\ channels[1].cached

\* the arrays with the entries of a in another iteration order
Reorderings(a) ==
    { [i \in 1..Len(a) |-> a[f[i]]] : f \in Permutations(1..Len(a)) }

\* C3: an array with the same (key, value) entries in another iteration
\* order gets the same concatenated string and the same hash key.
C3_OrderIndependent ==
    caRet = "true" =>
       \A b \in Reorderings(caIn) :
          LET r == ChannelArgsInit(ChannelArgsEmpty, b)
          IN /\ r.ok
             /\ r.obj.concatenatedArgs = caObj.concatenatedArgs
             /\ r.obj.hashKey = caObj.hashKey

\* an entry ChannelArgs::init must reject
InvalidEntry(p) == p[1].t # "string" \/ p[2].t \notin {"int", "string"}

\* C4: init of an array with an invalid entry at any position returns false
\* and leaves the hash key, the concatenated string, the stored pairs and
\* the native argument array empty.
C4_InvalidRejected ==
    (caRet # "none" /\ \E i \in 1..Len(caIn) : InvalidEntry(caIn[i]))
       => /\ caRet = "false"
          /\ caObj.hashKey = StrEmpty
          /\ caObj.concatenatedArgs = StrEmpty
          /\ caObj.phpData = << >>
          /\ caObj.args = << >>
          /\ caObj.num_args = 0

\* C4 witness: init failed on an array whose invalid entry follows a valid one
C4_Witness ==
    /\ caRet = "false"
    /\ Len(caIn) > 1
    /\ ~InvalidEntry(caIn[1])
    /\ InvalidEntry(caIn[Len(caIn)])

\* C10: getInfo consumes the registration.  Of the getInfo calls for a
\* credentials identity since its last setInfo (no deleteInfo in between),
\* the first returned the weak_ptr of the registered slot and every later
\* one an empty weak_ptr, and the map holds the entry exactly until the
\* first of them.
C10_GetInfoConsumes ==
    \A c \in CredIds :
       (infoLog[c].slot # NoSlot /\ ~infoLog[c].deleted) =>
          /\ \A i \in DOMAIN infoLog[c].results :
                infoLog[c].results[i] = IF i = 1 THEN infoLog[c].slot ELSE NoSlot
          /\ (c \in DOMAIN m_MetaDataMap) <=> (infoLog[c].results = << >>)
          /\ (c \in DOMAIN m_MetaDataMap) => m_MetaDataMap[c] = infoLog[c].slot

\* C10 witness: two getInfo calls followed a setInfo; the first got the
\* slot, the second nothing
C10_Witness ==
    \E c \in CredIds :
       /\ infoLog[c].slot # NoSlot
       /\ ~infoLog[c].deleted
       /\ Len(infoLog[c].results) = 2
       /\ infoLog[c].results[1] = infoLog[c].slot
       /\ infoLog[c].results[2] = NoSlot

(***************************************************************************)
(* Properties of plugin_get_metadata                                       *)
(***************************************************************************)
\* dispatcher e holds the shared_ptr that lock() gave it for slot s
Holds(e, s) == dpc[e] \in {"locked", "setValue"} /\ dloc[e].wpMetaDataInfo = s

\* the MetaDataInfo of slot s has no shared_ptr left: it is destroyed
Freed(s) == Strong(slots[s]) = 0

\* C11: a dispatch whose weak_ptr is empty or expired returns without a user
\* callback, a completion callback or a set_value, and a destroyed slot is
\* never touched again; a slot a dispatcher resolved is not destroyed while
\* the dispatcher works on it, whatever the owning call does.
C11_AbandonedIsNoOp ==
    /\ [][/\ \A e \in Threads :
               (dpc[e] = "lock" /\ Expired(dloc[e].wpMetaDataInfo) /\ dpc'[e] # dpc[e])
                  => dpc'[e] = "idle" /\ slots' = slots
          /\ \A s \in DOMAIN slots : Freed(s) => slots'[s] = slots[s]]_vars
    /\ [](\A e \in Threads, s \in DOMAIN slots : Holds(e, s) => ~Freed(s))

\* C11 witness: the dispatch for a registered slot came after the call had
\* dropped it and returned without a trace, while another dispatcher is
\* about to fulfil the promise of a slot its call has dropped meanwhile
C11_Witness ==
    /\ \E c \in CredIds :
          /\ infoLog[c].results # << >>
          /\ infoLog[c].results[1] # NoSlot
          /\ LET s == infoLog[c].results[1]
             IN /\ Freed(s)
                /\ slots[s].sets = 0
                /\ slots[s].cbCalls = << >>
                /\ slots[s].userCalls = << >>
                /\ \A e \in Threads : ~(dpc[e] # "idle" /\ dloc[e].wpMetaDataInfo = s)
    /\ \E e \in Threads, s \in DOMAIN slots :
          Holds(e, s) /\ dpc[e] = "setValue" /\ ~slots[s].owner

\* the completion callback call stands in the claimed relation to the value
\* the user callback returned
StatusAsClaimed(call) ==
    /\ call.retVal \in {"null", "nonArray"}
          => call.status = "GRPC_STATUS_UNKNOWN" /\ call.delivery = "empty"
    /\ call.retVal = "malformed"
          => call.status = "GRPC_STATUS_INVALID_ARGUMENT" /\ call.delivery = "empty"
    /\ call.retVal = "metadata"
          => call.status = "GRPC_STATUS_OK" /\ call.delivery = "metadata"

\* C12: every run of the user callback is followed by exactly one completion
\* callback, whose status and metadata are determined by the returned value
\* (null or no array: Unknown, nothing; rejected array: InvalidArgument,
\* nothing; valid array: Ok, that metadata), and plugin_do_get_metadata
\* returns true exactly when the status is Ok.
C12_StatusByReturnValue ==
    /\ \A s \in DOMAIN slots :
          /\ Len(slots[s].cbCalls) = Len(slots[s].userCalls)
          /\ \A i \in DOMAIN slots[s].cbCalls : StatusAsClaimed(slots[s].cbCalls[i])
    /\ \A e \in Threads :
          (dpc[e] = "setValue" /\ dloc[e].params.completed)
             => LET calls == slots[dloc[e].wpMetaDataInfo].cbCalls
                IN /\ calls # << >>
                   /\ dloc[e].params.result
                        <=> (calls[Len(calls)].status = "GRPC_STATUS_OK")

\* C12 witness: the user callback returned an array that is no valid
\* metadata, and plugin_do_get_metadata is about to report false
C12_Witness ==
    \E e \in Threads :
       /\ dpc[e] = "setValue"
       /\ dloc[e].params.completed
       /\ ~dloc[e].params.result
       /\ LET calls == slots[dloc[e].wpMetaDataInfo].cbCalls
          IN /\ Len(calls) = 1
             /\ calls[1].retVal = "malformed"
             /\ calls[1].status = "GRPC_STATUS_INVALID_ARGUMENT"
             /\ calls[1].delivery = "empty"

\* C13: a dispatcher on another thread than the one recorded in the slot
\* calls neither the user callback nor the completion callback; all it does
\* to the slot is one set_value of params that are not completed.
C13_OtherThreadHandsOver ==
    [][\A e \in Threads :
         (dpc[e] \in {"locked", "setValue"} /\ dpc'[e] # dpc[e]
            /\ slots[dloc[e].wpMetaDataInfo].threadId # e)
            => LET s == dloc[e].wpMetaDataInfo
               IN /\ slots'[s].userCalls = slots[s].userCalls
                  /\ slots'[s].cbCalls = slots[s].cbCalls
                  /\ dpc[e] = "locked" => slots'[s] = slots[s] /\ ~dloc'[e].params.completed
                  /\ dpc[e] = "setValue"
                       => /\ slots'[s].sets = slots[s].sets + 1
                          /\ slots'[s].promise.set
                          /\ ~slots'[s].promise.completed]_vars

\* C13 witness: a dispatcher on another thread has fulfilled the promise and
\* returned; no callback has run for the slot and the call has not taken
\* the params yet
C13_Witness ==
    \E s \in DOMAIN slots :
       /\ slots[s].promise.set
       /\ ~slots[s].promise.completed
       /\ slots[s].sets = 1
       /\ slots[s].userCalls = << >>
       /\ slots[s].cbCalls = << >>
       /\ ~slots[s].consumed
       /\ \A e \in Threads : dpc[e] = "idle"

\* for every slot the user callback runs on the thread of the call only, and
\* the completion callback at most once; it was the dispatcher that called
\* it exactly when the params in the promise are completed, the call does
\* so only after it took params that are not completed, and once the call
\* has taken the params the completion callback has been called exactly once
AtMostOnce ==
    \A s \in DOMAIN slots :
       /\ Len(slots[s].cbCalls) <= 1
       /\ Len(slots[s].userCalls) <= 1
       /\ \A i \in DOMAIN slots[s].userCalls :
             slots[s].userCalls[i].by = slots[s].threadId
       /\ \A i \in DOMAIN slots[s].cbCalls :
             /\ slots[s].cbCalls[i].by = slots[s].threadId
             /\ slots[s].cbCalls[i].role = "dispatcher"
                   => (slots[s].promise.set => slots[s].promise.completed)
             /\ slots[s].cbCalls[i].role = "call"
                   => /\ slots[s].promise.set
                      /\ ~slots[s].promise.completed
                      /\ slots[s].consumed
       /\ (slots[s].promise.set /\ slots[s].promise.completed)
             => Len(slots[s].cbCalls) = 1 /\ slots[s].cbCalls[1].role = "dispatcher"
       /\ slots[s].consumed => Len(slots[s].cbCalls) = 1

C15_FulfilledOnce ==
    \A s \in DOMAIN slots :
       /\ slots[s].sets <= 1
       /\ Cardinality({ e \in Threads : Holds(e, s) }) + slots[s].sets <= 1
       /\ slots[s].promise.set <=> (slots[s].sets = 1)

\* C15 witness: the promise of a registered slot was fulfilled, and a second
\* dispatch for the same credentials found nothing while the call still
\* held the slot
C15_Witness ==
    \E c \in CredIds :
       /\ Len(infoLog[c].results) = 2
       /\ infoLog[c].results[1] = infoLog[c].slot
       /\ infoLog[c].results[2] = NoSlot
       /\ infoLog[c].slot # NoSlot
       /\ slots[infoLog[c].slot].sets = 1
       /\ slots[infoLog[c].slot].owner
       /\ \A e \in Threads : dpc[e] = "idle"

(***************************************************************************)
(* Properties of the Channel objects                                       *)
(***************************************************************************)
\* the map entries that hold channel c
EntriesOf(c) == { k \in DOMAIN m_ChannelMap : m_ChannelMap[k] = c }

\* a ChannelData that owns channel c
OwnedHandle(c) == [m_pChannel |-> c, m_Owned |-> TRUE, m_HashKey |-> StrEmpty]

\* C16: the cache entry is the one owner of a channel: a cached channel that
\* is alive is held by exactly one entry, every open Channel object is a view
\* (m_Owned is false), and no step that changes an open Channel object
\* (close, sweep, a constructor re-initialising it) destroys the channel it
\* held; ChannelData::destroy and init on an owned handle destroy its
\* channel.
C16_ViewsNeverDestroy ==
    /\ [](/\ \A t \in Threads : Open(t) => ~channelData[t].m_Owned
          /\ \A c \in DOMAIN channels :
                (channels[c].cached /\ channels[c].destroyed = 0)
                   => Cardinality(EntriesOf(c)) = 1
          /\ \A c \in 1..MaxChannels :
                /\ ChannelDataDestroy(OwnedHandle(c)).destroyed = c
                /\ ChannelDataDestroy(OwnedHandle(c)).data.m_pChannel = NoChannel
                /\ ChannelDataInit(OwnedHandle(c), NoChannel, FALSE, StrEmpty).destroyed = c)
    /\ [][\A t \in Threads :
            (Open(t) /\ channelData'[t] # channelData[t])
               => channels'[channelData[t].m_pChannel].destroyed
                     = channels[channelData[t].m_pChannel].destroyed]_vars

\* C16 witness: a Channel object was opened on the cached channel of one
\* key, re-initialised by a constructor on the cached channel of another key
\* and then closed; both channels are alive in the cache
C16_Witness ==
    /\ lastOp.op = "close" /\ lastOp.exc = "none"
    /\ ~Open(lastOp.t)
    /\ Len(channels) = 2
    /\ \A c \in DOMAIN channels :
          /\ channels[c].cached
          /\ channels[c].destroyed = 0
          /\ Cardinality(EntriesOf(c)) = 1
    /\ channels[1].key # channels[2].key

\* C17: a constructor whose factory call returns no channel throws "failed
\* to create channel"; neither that step nor the steps of the constructor
\* before it change the map, any channel or the Channel object, so the
\* cache is as it was and an object that held no channel holds none.
C17_FactoryFailure ==
    [][\A t \in Threads :
         /\ (pc[t] = "factory" /\ pc'[t] = "idle")
               => /\ lastOp'.op = "construct" /\ lastOp'.t = t
                  /\ lastOp'.exc = "failed to create channel"
                  /\ UNCHANGED <<m_ChannelMap, channels, channelData, builtFrom>>
                  /\ ~Open(t) => channelData'[t].m_pChannel = NoChannel
         /\ (pc'[t] # pc[t] /\ pc'[t] \in {"getChannelLocked", "factory"})
               => UNCHANGED <<m_ChannelMap, channels, channelData, builtFrom>>]_vars

\* C17 witness: the factory failed for a new Channel object while the cache
\* held the channel of another key, which it still holds
C17_Witness ==
    /\ lastOp.op = "construct" /\ lastOp.exc = "failed to create channel"
    /\ ~Open(lastOp.t)
    /\ pc[lastOp.t] = "idle"
    /\ Len(channels) = 1
    /\ channels[1].cached /\ channels[1].destroyed = 0
    /\ Cardinality(DOMAIN m_ChannelMap) = 1

\* C18: a constructor called with an invalid argument array throws in its
\* first step, before the lookup: it creates no channel and changes neither
\* the map, the locks nor the Channel object; a constructor that reaches the
\* lookup has only valid entries.
C18_InvalidArgsNoEffect ==
    [][\A t \in Threads :
         /\ (Returns(t, "construct") /\ lastOp'.exc = "invalid channel arguments")
               => /\ pc[t] = "idle" /\ pc'[t] = "idle"
                  /\ UNCHANGED <<m_ChannelMap, channels, channelData, builtFrom,
                                 readers, writer>>
         /\ (pc[t] = "idle" /\ pc'[t] = "getChannelLocked")
               => \A i \in DOMAIN loc'[t].in.args : ~InvalidEntry(loc'[t].in.args[i])]_vars

\* C18 witness: the constructor was called with an invalid array on an open
\* Channel object; the object is still open on the cached channel
C18_Witness ==
    /\ lastOp.op = "construct" /\ lastOp.exc = "invalid channel arguments"
    /\ Open(lastOp.t)
    /\ Len(channels) = 1
    /\ channels[1].destroyed = 0
    /\ m_ChannelMap[channelData[lastOp.t].m_HashKey] = channelData[lastOp.t].m_pChannel

(***************************************************************************)
(* Properties of the canonical form                                        *)
(***************************************************************************)
\* p is not after q in the order by key, then value
KeyValueLeq(p, q) ==
    \/ StrLess(p[1], q[1])
    \/ p[1] = q[1] /\ (p[2] = q[2] \/ StrLess(p[2], q[2]))

\* comp is a strict weak ordering of the pairs in ps: irreflexive,
\* transitive, and with a transitive incomparability
StrictWeakOrdering(ps) ==
    /\ \A p \in ps : ~SortLambda(p, p)
    /\ \A p, q, r \in ps : (SortLambda(p, q) /\ SortLambda(q, r)) => SortLambda(p, r)
    /\ \A p, q, r \in ps :
          (~SortLambda(p, q) /\ ~SortLambda(q, p) /\ ~SortLambda(q, r) /\ ~SortLambda(r, q))
             => (~SortLambda(p, r) /\ ~SortLambda(r, p))

\* C19: after a successful init the string concatenated is that of the
\* stored pairs in ascending order by key, then value, and the comparison
\* handed to std::sort is a strict weak ordering of those pairs.
C19_SortedByKeyValue ==
    caRet = "true" =>
       LET sorted == StdSort(caObj.phpData)
       IN /\ caObj.concatenatedArgs = ConcatPairs(sorted)
          /\ \A i \in 1..(Len(sorted) - 1) : KeyValueLeq(sorted[i], sorted[i + 1])
          /\ StrictWeakOrdering({ caObj.phpData[i] : i \in DOMAIN caObj.phpData })

\* five decimal digits of n < 100000
Pad5(n) ==
    <<48 + (n \div 10000), 48 + ((n \div 1000) % 10), 48 + ((n \div 100) % 10),
      48 + ((n \div 10) % 10), 48 + (n % 10)>>

\* the decimal form of the 64-bit integer hi * 2^32 + lo, for the integers of
\* the 32-bit range and for hi > 0, lo >= 0 (2^32 = 42949 * 10^5 + 67296)
Decimal64(v) ==
    IF v.hi = 0 /\ v.lo >= 0 THEN DecDigits(v.lo)
    ELSE IF v.hi = -1 /\ v.lo < 0 THEN <<45>> \o DecDigits(0 - v.lo)
    ELSE LET low == 67296 * v.hi + (v.lo % 100000)
             top == 42949 * v.hi + (v.lo \div 100000) + (low \div 100000)
         IN DecDigits(top) \o Pad5(low % 100000)

\* b has the keys of a, and differs from a in integer values only
OtherIntegers(a, b) ==
    /\ Len(b) = Len(a)
    /\ b # a
    /\ \A i \in DOMAIN a :
          /\ b[i][1] = a[i][1]
          /\ b[i][2] # a[i][2] => (a[i][2].t = "int" /\ b[i][2].t = "int")

\* b is a with every integer value replaced by the string of its decimal form
AsStrings(a, b) ==
    /\ Len(b) = Len(a)
    /\ \A i \in DOMAIN a :
          /\ b[i][1] = a[i][1]
          /\ b[i][2] = IF a[i][2].t = "int" THEN VStr(Decimal64(a[i][2])) ELSE a[i][2]

\* C20: every integer value is stored as the decimal form of the 64-bit
\* integer, the array with the decimal strings in place of the integers gets
\* the same hash key, and an array that differs in an integer value gets
\* another concatenated string.
C20_IntegerCanonical ==
    caRet = "true" =>
       /\ \A i \in DOMAIN caIn :
             caIn[i][2].t = "int" => caObj.phpData[i][2] = Decimal64(caIn[i][2])
       /\ \A b \in ArgArrays :
             /\ AsStrings(caIn, b)
                   => ChannelArgsInit(ChannelArgsEmpty, b).obj.hashKey = caObj.hashKey
             /\ OtherIntegers(caIn, b)
                   => ChannelArgsInit(ChannelArgsEmpty, b).obj.concatenatedArgs
                         # caObj.concatenatedArgs

\* the argument pairs made of a string key and a string value
StringPairs == { p \in ArgPairs : p[1].t = "string" /\ p[2].t = "string" }

\* two different arrays of one string pair each in which key followed by
\* value reads the same
SameJoined(a, b) ==
    /\ a # b
    /\ Len(a) = 1 /\ Len(b) = 1
    /\ a[1] \in StringPairs /\ b[1] \in StringPairs
    /\ a[1][1].s \o a[1][2].s = b[1][1].s \o b[1][2].s

\* C21: keys, values and target are joined without a delimiter: two
\* different argument arrays in which key followed by value reads the same
\* ("ab","c" and "a","bc") get the same concatenated string, the same hash
\* key and, with the same target, the same cache key; and as long as nothing
\* was evicted or torn down, two open Channel objects built from such arrays
\* and the same target and credentials hold the same grpc_channel.
C21_ConcatCollision ==
    /\ \A p, q \in StringPairs :
          SameJoined(<<p>>, <<q>>) =>
             LET x == ChannelArgsInit(ChannelArgsEmpty, <<p>>)
                 y == ChannelArgsInit(ChannelArgsEmpty, <<q>>)
             IN /\ x.ok /\ y.ok
                /\ x.obj.concatenatedArgs = y.obj.concatenatedArgs
                /\ x.obj.hashKey = y.obj.hashKey
                /\ FullCacheKey(StrHost, x.obj, NoCreds)
                      = FullCacheKey(StrHost, y.obj, NoCreds)
    /\ NoEvict =>
         \A t1, t2 \in Threads :
            (/\ Open(t1) /\ Open(t2)
             /\ pc[t1] = "idle" /\ pc[t2] = "idle"
             /\ builtFrom[t1].target = builtFrom[t2].target
             /\ builtFrom[t1].creds = builtFrom[t2].creds
             /\ SameJoined(builtFrom[t1].args, builtFrom[t2].args))
               => /\ channelData[t1].m_HashKey = channelData[t2].m_HashKey
                  /\ channelData[t1].m_pChannel = channelData[t2].m_pChannel

\* C21 witness: one thread built its Channel object from ("ab","c"), the
\* other from ("a","bc"); one channel was ever created and both hold it
C21_Witness ==
    /\ Len(channels) = 1
    /\ \A t \in Threads : pc[t] = "idle" /\ channelData[t].m_pChannel = 1
    /\ SameJoined(builtFrom[1].args, builtFrom[2].args)
    /\ builtFrom[1].target = builtFrom[2].target

\* C22: the factory runs outside both locks.  A thread between its lookup
\* and the return of grpc_*_channel_create holds neither the read lock nor
\* the write lock of the cache: the read lock is held only inside getChannel
\* and the write lock only inside addChannel or deleteChannel, so while
\* threads are in the factory and no other thread is inside one of those,
\* the mutex is free for lookups and insertions.
C22_FactoryOutsideLocks ==
    /\ \A t \in Threads :
          /\ pc[t] = "factory" => (t \notin readers /\ writer # t)
          /\ t \in readers => pc[t] = "getChannelLocked"
          /\ writer = t => pc[t] \in {"addChannelLocked", "deleteChannelLocked"}
    /\ (\A t \in Threads : pc[t] \in {"factory", "idle"})
          => (readers = {} /\ writer = NoThread)

\* C22 witness: thread 1 is in the factory while thread 2, which created a
\* channel after thread 1's lookup, holds the write lock for its insertion
C22_Witness ==
    /\ pc[1] = "factory"
    /\ pc[2] = "addChannelLocked"
    /\ writer = 2
    /\ loc[1].fullCacheKey = loc[2].fullCacheKey

\* C23: the teardown of the cache runs with the mutex held exclusively (no
\* thread is inside a lookup, an insertion or a deleteChannel), calls
\* grpc_channel_destroy once on every channel that is a value of the map at
\* that moment and on no other channel, which leaves each of them destroyed
\* exactly once, and leaves the map empty.
C23_TeardownDestroysAll ==
    [][(tornDown' /\ ~tornDown) =>
          /\ readers = {} /\ writer = NoThread
          /\ readers' = {} /\ writer' = NoThread
          /\ m_ChannelMap' = EmptyMap
          /\ Len(channels') = Len(channels)
          /\ \A c \in DOMAIN channels :
                IF EntriesOf(c) # {}
                THEN /\ channels'[c].destroyed = channels[c].destroyed + 1
                     /\ channels'[c].destroyed = 1
                ELSE channels'[c].destroyed = channels[c].destroyed]_vars

\* C23 witness: the cache held two channels under two keys when it was torn
\* down; both are destroyed once and the map is empty
C23_Witness ==
    /\ tornDown
    /\ m_ChannelMap = EmptyMap
    /\ Len(channels) = 2
    /\ channels[1].key # channels[2].key
    /\ \A c \in DOMAIN channels : channels[c].cached /\ channels[c].destroyed = 1

\* this step is setInfo(c, a new slot)
SetInfoStep(c) == Len(slots') = Len(slots) + 1 /\ infoLog'[c].slot = Len(slots')

\* this step is the getInfo of dispatcher e
GetInfoStep(e) == dpc[e] = "getInfoLocked" /\ dpc'[e] = "lock"

\* C24: setInfo replaces.  After setInfo for a credentials identity, whether
\* it had a registration or not, the map has exactly one entry for it, that
\* of the slot just registered, and the entries of all other identities are
\* what they were; a getInfo that finds an entry returns the slot of the
\* latest setInfo for the identity, never an earlier one.
C24_SetInfoReplaces ==
    [][/\ \A c \in CredIds :
             SetInfoStep(c) =>
                /\ DOMAIN m_MetaDataMap' = DOMAIN m_MetaDataMap \cup {c}
                /\ m_MetaDataMap'[c] = Len(slots')
                /\ \A d \in DOMAIN m_MetaDataMap \ {c} :
                      m_MetaDataMap'[d] = m_MetaDataMap[d]
       /\ \A e \in Threads :
             (GetInfoStep(e) /\ dloc[e].c \in DOMAIN m_MetaDataMap) =>
                /\ dloc'[e].wpMetaDataInfo = infoLog[dloc[e].c].slot
                /\ dloc[e].c \notin DOMAIN m_MetaDataMap']_vars

\* C24 witness: two slots were registered under one identity, the second
\* while the first was still registered and its call alive; the getInfo that
\* followed returned the second
C24_Witness ==
    \E c \in CredIds :
       /\ Len(slots) = 2
       /\ infoLog[c].slot = 2
       /\ \A d \in CredIds \ {c} : infoLog[d].slot = NoSlot
       /\ dispatched = 1
       /\ infoLog[c].results = <<2>>
       /\ slots[1].owner /\ ~slots[1].promise.set

\* the last element of a sequence that is not empty
Last(seq) == seq[Len(seq)]

\* C25: a dispatcher on the thread recorded in the slot first runs
\* plugin_do_get_metadata (the user callback, then the completion callback,
\* once each, the promise still unfulfilled), and in a later step fulfils the
\* promise, without another callback, with params whose completed flag is set
\* and whose result is true exactly when the status handed to the completion
\* callback was Ok.
C25_SameThreadCallbackFirst ==
    [][\A e \in Threads :
         (dpc[e] \in {"locked", "setValue"} /\ dpc'[e] # dpc[e]
            /\ slots[dloc[e].wpMetaDataInfo].threadId = e)
            => LET s == dloc[e].wpMetaDataInfo
               IN /\ dpc[e] = "locked"
                       => /\ dpc'[e] = "setValue"
                          /\ slots[s].userCalls = << >> /\ slots[s].cbCalls = << >>
                          /\ Len(slots'[s].userCalls) = 1
                          /\ Len(slots'[s].cbCalls) = 1
                          /\ Last(slots'[s].userCalls) = [by |-> e, role |-> "dispatcher"]
                          /\ Last(slots'[s].cbCalls).by = e
                          /\ ~slots[s].promise.set
                          /\ slots'[s].promise = slots[s].promise
                          /\ slots'[s].sets = slots[s].sets
                  /\ dpc[e] = "setValue"
                       => /\ dpc'[e] = "idle"
                          /\ slots'[s].userCalls = slots[s].userCalls
                          /\ slots'[s].cbCalls = slots[s].cbCalls
                          /\ Len(slots[s].cbCalls) = 1
                          /\ ~slots[s].promise.set
                          /\ slots'[s].sets = slots[s].sets + 1
                          /\ slots'[s].promise.set
                          /\ slots'[s].promise.completed
                          /\ slots'[s].promise.result
                               <=> (Last(slots[s].cbCalls).status = "GRPC_STATUS_OK")]_vars

\* C25 witness: two promises were fulfilled by dispatchers on the threads of
\* their calls, one after a completion callback with status Ok and with
\* result true, one after a status that is not Ok and with result false
C25_Witness ==
    \E s1, s2 \in DOMAIN slots :
       /\ slots[s1].promise.set /\ slots[s1].promise.completed
       /\ slots[s1].promise.result
       /\ slots[s1].cbCalls[1].status = "GRPC_STATUS_OK"
       /\ slots[s2].promise.set /\ slots[s2].promise.completed
       /\ ~slots[s2].promise.result
       /\ slots[s2].cbCalls[1].status = "GRPC_STATUS_UNKNOWN"
       /\ \A s \in {s1, s2} : slots[s].cbCalls[1].role = "dispatcher" /\ ~slots[s].consumed

\* two calls, on two threads, are in flight on credentials c: both slots were
\* registered under c, both calls keep their slot, nothing else was
\* dispatched or deregistered
TwoCallsInFlight(c) ==
    /\ Len(slots) = 2
    /\ slots[1].threadId # slots[2].threadId
    /\ infoLog[c].slot = 2
    /\ ~infoLog[c].deleted
    /\ \A d \in CredIds \ {c} : infoLog[d] = NoLog
    /\ slots[1].owner /\ slots[2].owner

\* C26 as claimed: with two calls in flight on one credentials object, once
\* plugin_get_metadata has been called for it twice after the two
\* registrations and has returned, the promise of each of the two slots is
\* fulfilled, so that neither call stays blocked on its future.
C26_BothCallsServed ==
    \A c \in CredIds :
       (/\ TwoCallsInFlight(c)
        /\ Len(infoLog[c].results) >= 2
        /\ \A e \in Threads : dpc[e] = "idle")
          => slots[1].promise.set /\ slots[2].promise.set

\* this step is the teardown of the cache
TeardownStep == tornDown' /\ ~tornDown

\* C27: no channel is destroyed twice.  Whatever constructors (with and
\* without force_new), close, sweep, deleteChannel and the teardown do, the
\* destroy count of every channel is at most one and a channel the map holds
\* is alive; a channel that was never inserted is destroyed only by the
\* constructor call that created it, an inserted one only by the
\* deleteChannel that erases its entry or by the teardown that empties the
\* map, and by no step of a Channel object.
C27_DestroyedAtMostOnce ==
    /\ [](\A c \in DOMAIN channels :
            /\ channels[c].destroyed <= 1
            /\ EntriesOf(c) # {} => (channels[c].cached /\ channels[c].destroyed = 0)
            /\ ~channels[c].cached => EntriesOf(c) = {})
    /\ [][\A c \in DOMAIN channels :
            channels'[c].destroyed # channels[c].destroyed =>
               IF ~channels[c].cached
               THEN \E t \in Threads : ConstructReturns(t) /\ loc[t].pChannel = c
               ELSE \/ \E t \in Threads, k \in DOMAIN m_ChannelMap :
                         /\ EvictStep(t, k)
                         /\ m_ChannelMap[k] = c
                         /\ k \notin DOMAIN m_ChannelMap'
                    \/ TeardownStep /\ m_ChannelMap' = EmptyMap]_vars

\* C27 witness: after the teardown, the one channel that was in the cache
\* and the channel of a constructor that lost the race for its key are each
\* destroyed once
C27_Witness ==
    /\ tornDown
    /\ Len(channels) = 2
    /\ channels[1].cached /\ channels[1].destroyed = 1
    /\ ~channels[2].cached /\ channels[2].destroyed = 1
    /\ channels[2].found = NoChannel
    /\ channels[2].key = channels[1].key

\* no thread is inside a constructor call
NoConstructorRunning ==
    \A t \in Threads : pc[t] \notin {"getChannelLocked", "factory", "addChannelLocked"}

\* C28: no channel is leaked.  Whenever no constructor call is in progress,
\* every channel the factory ever returned is the value of a map entry or
\* has been destroyed.
C28_NoLeak ==
    NoConstructorRunning =>
       \A c \in DOMAIN channels : EntriesOf(c) # {} \/ channels[c].destroyed > 0

\* C28 witness: no constructor is running; the first channel is in the
\* cache, alive, and the second, created by a force_new constructor that
\* found the first, is destroyed
C28_Witness ==
    /\ NoConstructorRunning
    /\ Len(channels) = 2
    /\ EntriesOf(1) # {} /\ channels[1].destroyed = 0
    /\ channels[2].found = 1
    /\ EntriesOf(2) = {} /\ channels[2].destroyed = 1

\* C29: no Channel object dangles.  As long as no deleteChannel and no
\* teardown has destroyed an entry of the cache, every open Channel object
\* holds a channel that has not been destroyed; and the channel a constructor
\* destroyed because its insertion lost is held by no Channel object and no
\* map entry.
C29_NoDanglingHandle ==
    /\ NoEvict =>
         \A t \in Threads :
            Open(t) => /\ channelData[t].m_pChannel \in DOMAIN channels
                       /\ channels[channelData[t].m_pChannel].destroyed = 0
    /\ \A c \in DOMAIN channels :
          (channels[c].destroyed > 0 /\ ~channels[c].cached)
             => /\ EntriesOf(c) = {}
                /\ \A t \in Threads : channelData[t].m_pChannel # c

\* C29 witness: two constructors raced for one key and both created a
\* channel; the loser's is destroyed and both Channel objects are open on
\* the winner's, which is alive
C29_Witness ==
    /\ NoEvict
    /\ Len(channels) = 2
    /\ channels[1].key = channels[2].key
    /\ \A c \in DOMAIN channels : channels[c].found = NoChannel
    /\ \E w, l \in DOMAIN channels :
          /\ channels[w].cached /\ channels[w].destroyed = 0
          /\ ~channels[l].cached /\ channels[l].destroyed = 1
          /\ \A t \in Threads : pc[t] = "idle" /\ channelData[t].m_pChannel = w

\* dispatcher e is past getInfo with the weak_ptr of slot s
Obtained(e, s) == dpc[e] \in {"lock", "locked", "setValue"} /\ dloc[e].wpMetaDataInfo = s

\* C30: of the dispatchers that run plugin_get_metadata for one credentials
\* identity after one setInfo, however they interleave, exactly one obtains
\* the registered slot and every other one an empty weak_ptr, with which it
\* returns without a callback and without a set_value; and m_Lock is held
\* inside getInfo only: a dispatcher that is at lock(), that runs the
\* callbacks or that fulfils the promise does not hold it.
C30_OneDispatcherWins ==
    /\ [](\A e \in Threads :
            /\ m_Lock = e => dpc[e] = "getInfoLocked"
            /\ dpc[e] \in {"lock", "locked", "setValue"} => m_Lock # e)
    /\ [](\A s \in DOMAIN slots : Cardinality({ e \in Threads : Obtained(e, s) }) <= 1)
    /\ [](\A c \in CredIds :
            (infoLog[c].slot # NoSlot /\ ~infoLog[c].deleted /\ infoLog[c].results # << >>)
               => Cardinality({ i \in DOMAIN infoLog[c].results :
                                   infoLog[c].results[i] = infoLog[c].slot }) = 1)
    /\ [][\A e \in Threads :
            (dpc[e] = "lock" /\ dloc[e].wpMetaDataInfo = NoSlot /\ dpc'[e] # dpc[e])
               => /\ dpc'[e] = "idle"
                  /\ slots' = slots
                  /\ m_MetaDataMap' = m_MetaDataMap]_vars

\* C30 witness: after one setInfo two dispatchers are inside
\* plugin_get_metadata for the identity at the same time: one is about to
\* fulfil the promise of the slot, the other got an empty weak_ptr, and
\* nobody holds m_Lock
C30_Witness ==
    \E c \in CredIds, e1, e2 \in Threads :
       /\ Len(slots) = 1
       /\ infoLog[c].slot = 1
       /\ infoLog[c].results = <<1, NoSlot>>
       /\ dpc[e1] = "setValue" /\ dloc[e1].c = c /\ dloc[e1].wpMetaDataInfo = 1
       /\ dpc[e2] = "lock" /\ dloc[e2].c = c /\ dloc[e2].wpMetaDataInfo = NoSlot
       /\ m_Lock = NoThread
       /\ ~slots[1].promise.set

(***************************************************************************)
(* Properties of Slice                                                     *)
(***************************************************************************)
\* the live Slice objects whose m_Slice is buffer b
Holders(b) == { o \in SliceObjs : sliceObjs[o].state = "live" /\ sliceObjs[o].m_Slice = b }

\* C31 as claimed: the reference count of a buffer stays balanced under
\* construction, copy and move construction, copy and move assignment and
\* destruction of Slice objects: the gpr_slice_unref calls on a buffer never
\* exceed one plus the gpr_slice_ref calls on it, and its count is zero
\* exactly when no live Slice object holds it.
C31_RefCountBalanced ==
    \A b \in DOMAIN buffers :
       /\ buffers[b].unrefs <= 1 + buffers[b].refs
       /\ (Count(buffers, b) = 0) <=> (Holders(b) = {})

====
